---- MODULE Spec2Model ----
(***************************************************************************)
(* A model of the human-behaviour simulation of linkedbot (package        *)
(* stealth, src/internal/models/models.go lines 45-498): the timing        *)
(* generators, the typing generator, the pointer trajectory, the scroll    *)
(* pattern and the click primitive, each as a state machine over the       *)
(* commands it sends to the browser surface.                               *)
(*                                                                         *)
(* Conventions.  Every call of math/rand is an input drawn with \E from    *)
(* the set of values the call can return (sampled where the range is       *)
(* large, see Intn).  float64 arithmetic is carried out in fixed point;    *)
(* Go's int() conversion and integer division truncate toward zero         *)
(* (GoDiv).  A surface command whose error the code discards is still a    *)
(* dispatched command; whether it took effect is the surface's answer.     *)
(***************************************************************************)
EXTENDS Bags, FiniteSets, Integers, Sequences, TLC

VARIABLES
    tmFn,       \* timing: the timing function called last ("none" before any call)
    tmArgs,     \* timing: its arguments and random draws
    tmSlept,    \* timing: the durations (ms) handed to time.Sleep by that call
    tmRet,      \* timing: the value returned (InActiveWindow), "none" otherwise
    scPc,       \* scroll: where ScrollHumanLike stands: "idle", "step", "chunk", "done"
    scSteps,    \* scroll: steps, the number of scroll actions drawn for this run
    scI,        \* scroll: i, the steps completed so far
    scPx,       \* scroll: px, the distance drawn for the current step
    scChunks,   \* scroll: chunks, the number of scrollBy calls of the current step
    scJ,        \* scroll: j, the scrollBy calls of the current step dispatched so far
    scSent,     \* scroll: the sum of the deltas dispatched for the current step
    scNet,      \* scroll: the sum of all deltas dispatched in this run
    scUps,      \* scroll: the upward scrollBy calls dispatched in this run
    scLast,     \* scroll: the delta of the scrollBy dispatched last (0: none yet)
    scPauses,   \* scroll: the sleep calls made since the last scrollBy
    tyPc,       \* typing: where TypeHumanLike stands: "idle", "loop", "typo1",
                \*   "typo2", "typed", "done"
    tyText,     \* typing: text, the bytes of the string to type
    tyIdx,      \* typing: i, the byte index of the character the loop is at
    tyBuf,      \* typing: the content of the field, one element for each character
    tyEvents,   \* typing: the commands and pauses issued for the current character
    tyDelays,   \* typing: the rhythm after the last character: the duration slept
                \*   by SleepGaussian(baseDelay, 20), then the re-reading pause if any
    tyTypos,    \* typing: whether a typo was injected during this call
    tyFaults,   \* typing: how many more commands the surface may fail in this call
    tyRet,      \* typing: what TypeHumanLike returned: "none", "nil", "err"
    mvPc,       \* pointer: where MoveMouseHumanLike stands: "idle", "loop",
                \*   "settle", "micro", "done"
    mvFrom,     \* pointer: (fromX, fromY)
    mvTo,       \* pointer: (toX, toY)
    mvSteps,    \* pointer: steps
    mvCtrl,     \* pointer: the control points (cx1, cy1, cx2, cy2)
    mvOver,     \* pointer: overshoot, and (overshootX, overshootY)
    mvI,        \* pointer: i of the main loop, j of the micro-correction loop
    mvFirst,    \* pointer: the point of the first move dispatched (<<>>: none yet)
    mvLast,     \* pointer: the point of the last move dispatched (<<>>: none yet)
    mvCount,    \* pointer: the number of moves dispatched by this call
    mvPause,    \* pointer: the sleep that followed the last move
    ckPc,       \* click: where ClickHumanLike stands: "idle", "shape", "move",
                \*   "pressed", "done"
    ckIn,       \* click: what the page answers: el.Shape() and the viewport
    ckTarget,   \* click: (targetX, targetY)
    ckLog,      \* click: the calls made on the element and the page, in order
    ckSlept,    \* click: the duration of the last SleepRandom, in ms
    ckRet,      \* click: what ClickHumanLike returned: "none", "nil", "err"
    stProfiles, \* store: the rows of table profiles, a row's id is its position
    stLogs,     \* store: the rows of table message_logs, a bag (no query reads
                \*   their ids or their order)
    stDay,      \* store: the calendar day time.Now() and DATE('now') fall on
    stCall,     \* store: the last call made on the store by itself, (fn, arg)
    cnPc,       \* connections: where SendConnections stands: "idle", "loop", "done"
    cnToSend,   \* connections: toSend
    cnProfiles, \* connections: the ids of profiles still to be processed
    cnSent,     \* connections: sent
    cnRet,      \* connections: what SendConnections returned, (n, err)
    fuPc,       \* follow-ups: where SendFollowUps stands: "idle", "loop", "done"
    fuToSend,   \* follow-ups: toSend
    fuProfiles, \* follow-ups: the ids of profiles still to be processed
    fuSent,     \* follow-ups: sent
    fuRet,      \* follow-ups: what SendFollowUps returned, (n, err)
    raPc,       \* run-all: where runAll stands: "idle", "next", "running", "done"
    raEnv,      \* run-all: the environment variables that are set
    raPhase,    \* run-all: the phase runAll has come to, 1..4 (5: past the last)
    raLog,      \* run-all: the phases started, in order, each with its result
    raRet,      \* run-all: what runAll returned: "none", "nil", "err"
    cfgStealth, \* config: the enable flags of cfg.Stealth as loaded
    auPc,       \* auth: where EnsureLoggedIn stands: "idle", "page", "cookies",
                \*   "validate", "login", "save", "done"
    auEnv,      \* auth: whether LINKEDIN_EMAIL and LINKEDIN_PASSWORD are non-empty
    auFile,     \* auth: the file .cache/cookies.json: "none", "cookies", or
                \*   "partial" (a write that failed part-way)
    auLog,      \* auth: the steps EnsureLoggedIn has taken in this call, each
                \*   with its outcome
    auRet,      \* auth: what EnsureLoggedIn returned: "none", "nil", "err"
    auErr,      \* auth: the error it returned ("none": none)
    srPc,       \* search: where SearchAndStoreTargets stands: "idle", "page",
                \*   "loop", "links", "pageEnd", "end", "done"
    srLimit,    \* search: c.Limit, after the default was put in
    srPage,     \* search: pageNum
    srLinks,    \* search: links, the hrefs of the links found on the page
    srK,        \* search: how many of links the range loop has passed
    srSeen,     \* search: seenOnPage
    srCollected, \* search: collected
    srStoredAt, \* search: the values of collected at which a profile was stored
    srRet,      \* search: what was returned: "none" or (collected, err)
    hvPc,       \* hover: where RandomHover stands: "idle", "attempt", "move", "done"
    hvN,        \* hover: len(selectors)
    hvAttempts, \* hover: attempts
    hvI,        \* hover: i
    hvLog,      \* hover: the attempts made, each with what became of it
    hvRet,      \* hover: "none", or "returned" (RandomHover has no result)
    imPc,       \* idle movement: where MouseIdleMovement stands: "idle", "dims",
                \*   "move", "jiggle", "done"
    imView,     \* idle movement: what the page answers to the viewport read
    imDest,     \* idle movement: (x, y), the point in the safe area
    imI,        \* idle movement: i, the wandering moves dispatched
    imLast,     \* idle movement: the point of the last wandering move
    imRet,      \* idle movement: "none", "nil", or "panic"
    soPc,       \* sendOne: where the attempt stands: "idle", "page", "clicked", "update",
                \* "insert", "commit", "back"
    soId,       \* sendOne: prof.ID, 0 when no attempt is under way
    soClicked,  \* sendOne: ClickHumanLike(p, sendBtn) has returned nil in this attempt
    soBefore,   \* sendOne: the profile's flags and the message log when the attempt began
    soTx,       \* sendOne: the rows and logs as the open transaction sees them
    soRet       \* sendOne: what the attempt returned: "none", "nil", "err"

timingVars == <<tmFn, tmArgs, tmSlept, tmRet>>
scrollVars == <<scPc, scSteps, scI, scPx, scChunks, scJ, scSent, scNet, scUps, scLast, scPauses>>

typeVars == <<tyPc, tyText, tyIdx, tyBuf, tyEvents, tyDelays, tyTypos, tyFaults, tyRet>>

moveVars == <<mvPc, mvFrom, mvTo, mvSteps, mvCtrl, mvOver, mvI, mvFirst, mvLast, mvCount, mvPause>>

clickVars == <<ckPc, ckIn, ckTarget, ckLog, ckSlept, ckRet>>

storeVars == <<stProfiles, stLogs, stDay, stCall>>
connVars == <<cnPc, cnToSend, cnProfiles, cnSent, cnRet>>

followVars == <<fuPc, fuToSend, fuProfiles, fuSent, fuRet>>
outreachVars == <<storeVars, connVars, followVars>>

runAllVars == <<raPc, raEnv, raPhase, raLog, raRet>>

configVars == <<cfgStealth>>

authVars == <<auPc, auEnv, auFile, auLog, auRet, auErr>>

searchVars == <<srPc, srLimit, srPage, srLinks, srK, srSeen, srCollected, srStoredAt, srRet>>

hoverVars == <<hvPc, hvN, hvAttempts, hvI, hvLog, hvRet>>

idleMoveVars == <<imPc, imView, imDest, imI, imLast, imRet>>

sendVars == <<soPc, soId, soClicked, soBefore, soTx, soRet>>

vars == <<timingVars, scrollVars, typeVars, moveVars, clickVars, outreachVars, runAllVars, configVars, authVars, searchVars, hoverVars, idleMoveVars, sendVars>>

\* What each primitive leaves alone: the state of the others.
exceptTiming == <<scrollVars, typeVars, moveVars, clickVars, outreachVars, runAllVars, configVars, authVars, searchVars, hoverVars, idleMoveVars, sendVars>>
exceptScroll == <<timingVars, typeVars, moveVars, clickVars, outreachVars, runAllVars, configVars, authVars, searchVars, hoverVars, idleMoveVars, sendVars>>
exceptType == <<timingVars, scrollVars, moveVars, clickVars, outreachVars, runAllVars, configVars, authVars, searchVars, hoverVars, idleMoveVars, sendVars>>
exceptMove == <<timingVars, scrollVars, typeVars, clickVars, outreachVars, runAllVars, configVars, authVars, searchVars, hoverVars, idleMoveVars, sendVars>>
exceptClick == <<timingVars, scrollVars, typeVars, outreachVars, runAllVars, configVars, authVars, searchVars, hoverVars, idleMoveVars, sendVars>>
exceptOutreach == <<timingVars, scrollVars, typeVars, moveVars, clickVars, runAllVars, configVars, authVars, searchVars, hoverVars, idleMoveVars, sendVars>>
exceptRunAll == <<timingVars, scrollVars, typeVars, moveVars, clickVars, outreachVars, configVars, authVars, searchVars, hoverVars, idleMoveVars, sendVars>>
exceptConfig == <<timingVars, scrollVars, typeVars, moveVars, clickVars, outreachVars, runAllVars, authVars, searchVars, hoverVars, idleMoveVars, sendVars>>
exceptAuth == <<timingVars, scrollVars, typeVars, moveVars, clickVars, outreachVars, runAllVars, configVars, searchVars, hoverVars, idleMoveVars, sendVars>>
exceptSearch == <<timingVars, scrollVars, typeVars, moveVars, clickVars, outreachVars, runAllVars, configVars, authVars, hoverVars, idleMoveVars, sendVars>>
exceptHover == <<timingVars, scrollVars, typeVars, clickVars, outreachVars, runAllVars, configVars, authVars, searchVars, idleMoveVars, sendVars>>
exceptIdleMove == <<timingVars, scrollVars, typeVars, clickVars, outreachVars, runAllVars, configVars, authVars, searchVars, hoverVars, sendVars>>
exceptSendOne == <<timingVars, scrollVars, typeVars, moveVars, clickVars, runAllVars, configVars, authVars, searchVars, hoverVars, idleMoveVars>>

----------------------------------------------------------------------------
(* Go arithmetic *)

\* Go's integer division and int(float) conversion truncate toward zero.
GoDiv(a, b) == IF a >= 0 THEN a \div b ELSE -((-a) \div b)

Max(a, b) == IF a >= b THEN a ELSE b
Min(a, b) == IF a <= b THEN a ELSE b
Abs(a) == IF a >= 0 THEN a ELSE -a

\* How many values from each end of a large range 0..n-1 a draw is sampled at.
Dense == 2

\* rand.Intn(n): a value of 0..n-1; n <= 0 panics (no value).  Ranges wider
\* than the sample keep both ends and the middle.
Intn(n) ==
    IF n <= 0 THEN {}
    ELSE IF n <= 2 * Dense + 1 THEN 0 .. (n - 1)
    ELSE (0 .. (Dense - 1)) \cup {n \div 2} \cup ((n - Dense) .. (n - 1))

----------------------------------------------------------------------------
(* Timing generator: SleepRandom, SleepGaussian, ThinkTime *)

\* SleepRandom clamping the wrong bound: minMs lowered to maxMs.
SleepRandomClampMin(minMs, maxMs) ==
    LET lo == IF maxMs < minMs THEN maxMs ELSE minMs
    IN  {lo + r : r \in Intn(maxMs - lo + 1)}

\* SleepRandom(minMs, maxMs): the durations d it can hand to time.Sleep.
SleepRandom(minMs, maxMs) ==
    LET hi == IF maxMs < minMs THEN minMs ELSE maxMs
    IN  {minMs + r : r \in Intn(hi - minMs + 1)}

\* The largest |z| Box-Muller yields from a float64 u1 > 0, in hundredths:
\* sqrt(-2 ln 2^-53) = 8.57.
ZMax == 857

\* A stand-in for the magnitude of the extreme int values.
BigInt == 1000000

\* A normal draw z = sqrt(-2 ln u1) * cos(2 pi u2): finite, in hundredths, or
\* not finite (u1 = 0 gives +Inf or -Inf, and NaN once multiplied by 0).
ZDraws ==
    {[finite |-> TRUE, z |-> z] :
        z \in {-ZMax, -301, -300, -155, 0, 155, 300, 301, ZMax}}
    \cup {[finite |-> FALSE, z |-> 0]}

\* int(float64(meanMs) + z*float64(stdDevMs)): truncated toward zero; the
\* conversion of a value that is not finite is implementation-specific.
GaussianRaw(meanMs, stdDevMs, draw) ==
    IF draw.finite
    THEN {GoDiv(100 * meanMs + draw.z * stdDevMs, 100)}
    ELSE {-BigInt, 0, BigInt}

\* SleepGaussian without the clamp to mean +- 3 stddev.
SleepGaussianNoClamp(meanMs, stdDevMs, delay) == delay

\* The clamp of SleepGaussian: delay after lines 75-81.
SleepGaussianClamp(meanMs, stdDevMs, delay) ==
    LET minDelay == meanMs - 3 * stdDevMs
        maxDelay == meanMs + 3 * stdDevMs
    IN  IF delay < minDelay THEN minDelay
        ELSE IF delay > maxDelay THEN maxDelay
        ELSE delay

\* SleepGaussian(meanMs, stdDevMs): the sequences of durations it can hand to
\* time.Sleep: one duration when the clamped delay is positive, none otherwise.
SleepGaussianOn(meanMs, stdDevMs, draw) ==
    {IF SleepGaussianClamp(meanMs, stdDevMs, raw) > 0
        THEN <<SleepGaussianClamp(meanMs, stdDevMs, raw)>>
        ELSE <<>> : raw \in GaussianRaw(meanMs, stdDevMs, draw)}

SleepGaussian(meanMs, stdDevMs) ==
    UNION {SleepGaussianOn(meanMs, stdDevMs, draw) : draw \in ZDraws}

----------------------------------------------------------------------------
(* Active window gate: InActiveWindow *)

\* A clock string "HH:MM" as its four digits.
ClockStrings ==
    {<<0, 0, 0, 0>>, <<0, 8, 5, 9>>, <<0, 9, 0, 0>>, <<0, 9, 0, 1>>,
     <<1, 7, 5, 9>>, <<1, 8, 0, 0>>, <<1, 8, 0, 1>>, <<2, 3, 5, 9>>}

\* time.Parse("15:04", s): hour and minute, or the zero time on a range error
\* (the error is discarded by the caller).
ParseClock(s) ==
    LET hour == 10 * s[1] + s[2]
        minute == 10 * s[3] + s[4]
    IN  IF hour <= 23 /\ minute <= 59
        THEN [hour |-> hour, minute |-> minute]
        ELSE [hour |-> 0, minute |-> 0]

\* time.Now(): the wall clock reading, its hour and minute written as a
\* clock string, and its second.
NowSamples == {[clock |-> s, sec |-> sec] : s \in ClockStrings, sec \in {0, 1, 59}}

\* A wall clock reading as the second of the day.
NowSecond(n) == 3600 * (10 * n.clock[1] + n.clock[2]) + 60 * (10 * n.clock[3] + n.clock[4]) + n.sec

\* time.Date(today, hour, minute, 0, 0) as the second of the day.
DateToday(hour, minute) == 3600 * hour + 60 * minute

\* InActiveWindow with the end of the window taken inclusively.
InActiveWindowInclusive(start, end, now) ==
    LET s == ParseClock(start)
        e == ParseClock(end)
    IN  now > DateToday(s.hour, s.minute) /\ now <= DateToday(e.hour, e.minute)

\* InActiveWindow(start, end) at time now:
\* now.After(startToday) && now.Before(endToday).
InActiveWindow(start, end, now) ==
    LET s == ParseClock(start)
        e == ParseClock(end)
        startToday == DateToday(s.hour, s.minute)
        endToday == DateToday(e.hour, e.minute)
    IN  now > startToday /\ now < endToday

----------------------------------------------------------------------------
(* The timing calls as actions *)

\* Millisecond arguments of SleepRandom: the bounds the callers pass and
\* ill-formed pairs.
MsArgs == {0, 30, 50, 90, 100, 150}

\* (mean, stddev) arguments of SleepGaussian: those of the callers, and
\* degenerate ones.
GaussArgs ==
    {<<1400, 600>>, <<300, 150>>, <<400, 200>>, <<1200, 500>>, <<40, 20>>,
     <<25, 20>>, <<60, 20>>, <<35, 20>>, <<0, 0>>, <<100, 0>>, <<0, 10>>}

TimingIdle ==
    /\ tmFn = "none"
    /\ tmArgs = <<>>
    /\ tmSlept = <<>>
    /\ tmRet = "none"

SleepRandomCall ==
    /\ tmFn = "none"
    /\ \E minMs \in MsArgs, maxMs \in MsArgs :
         \E d \in SleepRandom(minMs, maxMs) :
           /\ tmFn' = "SleepRandom"
           /\ tmArgs' = <<minMs, maxMs>>
           /\ tmSlept' = <<d>>
           /\ tmRet' = "none"
    /\ UNCHANGED exceptTiming

SleepGaussianCall ==
    /\ tmFn = "none"
    /\ \E a \in GaussArgs, draw \in ZDraws :
         \E s \in SleepGaussianOn(a[1], a[2], draw) :
           /\ tmFn' = "SleepGaussian"
           /\ tmArgs' = <<a[1], a[2], draw>>
           /\ tmSlept' = s
           /\ tmRet' = "none"
    /\ UNCHANGED exceptTiming

\* ThinkTime() { SleepGaussian(1400, 600) }
ThinkTime ==
    /\ tmFn = "none"
    /\ \E draw \in ZDraws :
         \E s \in SleepGaussianOn(1400, 600, draw) :
           /\ tmFn' = "ThinkTime"
           /\ tmArgs' = <<draw>>
           /\ tmSlept' = s
           /\ tmRet' = "none"
    /\ UNCHANGED exceptTiming

InActiveWindowCall ==
    /\ tmFn = "none"
    /\ \E start \in ClockStrings, end \in ClockStrings, now \in NowSamples :
           /\ tmFn' = "InActiveWindow"
           /\ tmArgs' = <<start, end, now>>
           /\ tmSlept' = <<>>
           /\ tmRet' = InActiveWindow(start, end, NowSecond(now))
    /\ UNCHANGED exceptTiming

\* The caller goes on: the timing functions keep no state between calls.
TimingReturn ==
    /\ tmFn # "none"
    /\ tmFn' = "none"
    /\ tmArgs' = <<>>
    /\ tmSlept' = <<>>
    /\ tmRet' = "none"
    /\ UNCHANGED exceptTiming

TimingNext ==
    \/ SleepRandomCall
    \/ SleepGaussianCall
    \/ ThinkTime
    \/ InActiveWindowCall
    \/ TimingReturn


----------------------------------------------------------------------------
(* Claims on the timing generator *)

\* The time a timing call spent asleep: time.Sleep returns at once for d <= 0.
TimeAsleep == IF tmSlept = <<>> THEN 0 ELSE Max(0, tmSlept[1])

\* C3: for every (mean, stddev) with stddev >= 0 and every normal draw, the
\* duration SleepGaussian sleeps is >= 0 and lies in
\* [mean - 3*stddev, mean + 3*stddev] floored at zero (a result <= 0 is no
\* sleep at all); ThinkTime sleeps between 0 and 3200 ms.
C3_GaussianWithinThreeSigma ==
    /\ tmFn = "SleepGaussian" =>
          /\ Len(tmSlept) <= 1
          /\ TimeAsleep >= 0
          /\ TimeAsleep >= Max(0, tmArgs[1] - 3 * tmArgs[2])
          /\ TimeAsleep <= Max(0, tmArgs[1] + 3 * tmArgs[2])
          /\ \A k \in 1 .. Len(tmSlept) : tmSlept[k] > 0
    /\ tmFn = "ThinkTime" =>
          /\ Len(tmSlept) <= 1
          /\ TimeAsleep >= 0
          /\ TimeAsleep <= 3200
          /\ \A k \in 1 .. Len(tmSlept) : tmSlept[k] > 0

\* C3 witness: a draw beyond three sigma (and one that is not finite) was
\* clamped to mean + 3*stddev, and a draw far below was not slept at all.
C3_Witness ==
    \/ /\ tmFn = "SleepGaussian"
       /\ tmArgs[1] = 1400 /\ tmArgs[2] = 600
       /\ tmArgs[3].finite /\ tmArgs[3].z = ZMax
       /\ tmSlept = <<3200>>
    \/ /\ tmFn = "ThinkTime"
       /\ ~tmArgs[1].finite
       /\ tmSlept = <<>>

\* C4: SleepRandom(min, max) sleeps an integer number of ms in [min, max] when
\* min <= max; when max < min it sleeps exactly min ms, never a negative or
\* inverted-range value.
C4_SleepRandomRange ==
    tmFn = "SleepRandom" =>
      LET minMs == tmArgs[1]
          maxMs == tmArgs[2]
      IN  /\ Len(tmSlept) = 1
          /\ tmSlept[1] >= 0
          /\ minMs <= maxMs => (minMs <= tmSlept[1] /\ tmSlept[1] <= maxMs)
          /\ maxMs < minMs => tmSlept[1] = minMs

\* C4 witness: SleepRandom(100, 50) slept exactly 100 ms.
C4_Witness ==
    /\ tmFn = "SleepRandom"
    /\ tmArgs = <<100, 50>>
    /\ tmSlept = <<100>>

\* "HH:MM" read as the number HHMM: the order of clock strings.
ClockOrder(s) == 1000 * s[1] + 100 * s[2] + 10 * s[3] + s[4]

\* A wall clock reading lies strictly between the clock strings start and end.
StrictlyBetween(start, end, now) ==
    /\ \/ ClockOrder(now.clock) > ClockOrder(start)
       \/ (ClockOrder(now.clock) = ClockOrder(start) /\ now.sec > 0)
    /\ ClockOrder(now.clock) < ClockOrder(end)

\* C5: InActiveWindow(start, end) is true iff the current time of day lies
\* strictly between start and end, for every pair of HH:MM values (window
\* 09:00-18:00: 08:59 false, 09:01 true, 17:59 true, 18:01 false); it sleeps
\* not at all.
C5_ActiveWindowStrictlyBetween ==
    tmFn = "InActiveWindow" =>
      /\ tmRet = StrictlyBetween(tmArgs[1], tmArgs[2], tmArgs[3])
      /\ tmSlept = <<>>
      /\ (tmArgs[1] = <<0, 9, 0, 0>> /\ tmArgs[2] = <<1, 8, 0, 0>>) =>
            /\ tmArgs[3].clock = <<0, 8, 5, 9>> => tmRet = FALSE
            /\ tmArgs[3].clock = <<0, 9, 0, 1>> => tmRet = TRUE
            /\ tmArgs[3].clock = <<1, 7, 5, 9>> => tmRet = TRUE
            /\ tmArgs[3].clock = <<1, 8, 0, 1>> => tmRet = FALSE
            /\ tmArgs[3] = [clock |-> <<1, 8, 0, 0>>, sec |-> 0] => tmRet = FALSE

\* C5 witness: inside 09:00-18:00 at 17:59:59 the gate answered true.
C5_Witness ==
    /\ tmFn = "InActiveWindow"
    /\ tmArgs = <<<<0, 9, 0, 0>>, <<1, 8, 0, 0>>, [clock |-> <<1, 7, 5, 9>>, sec |-> 59]>>
    /\ tmRet = TRUE

----------------------------------------------------------------------------
(* Scroll pattern generator: ScrollHumanLike *)

\* steps := 3 + rand.Intn(5)
ScrollSteps(r) == 3 + r

\* px := 300 + rand.Intn(500)
ScrollPx(r) == 300 + r

\* chunks := 2 + rand.Intn(3)
ScrollChunks(r) == 2 + r

\* The chunk size taken one chunk too many.
ScrollChunkOffByOne(px, chunks) == GoDiv(px, chunks + 1)

\* px/chunks, the delta of each scrollBy of a chunked step.
ScrollChunk(px, chunks) == GoDiv(px, chunks)

\* The scroll back with the sign left out.
ScrollBackDown(r) == 100 + r

\* -(100 + rand.Intn(120)), the delta of the scroll back up.
ScrollBack(r) == -(100 + r)

\* A sleep call, by its function and arguments (its durations are those of
\* SleepRandom and SleepGaussian above).
Pause(fn, a, b) == [fn |-> fn, a |-> a, b |-> b]

\* The pauses that end a step: SleepGaussian(400, 200), and with probability
\* 0.4 a reading pause SleepGaussian(1200, 500).
ScrollStepPauses(reading) ==
    <<Pause("SleepGaussian", 400, 200)>>
        \o (IF reading THEN <<Pause("SleepGaussian", 1200, 500)>> ELSE <<>>)

ScrollIdle ==
    /\ scPc = "idle"
    /\ scSteps = 0 /\ scI = 0 /\ scPx = 0 /\ scChunks = 0 /\ scJ = 0
    /\ scSent = 0 /\ scNet = 0 /\ scUps = 0 /\ scLast = 0
    /\ scPauses = <<>>

\* ScrollHumanLike is entered: line 378.
ScrollBegin ==
    /\ scPc = "idle"
    /\ \E r \in Intn(5) : scSteps' = ScrollSteps(r)
    /\ scPc' = "step"
    /\ UNCHANGED <<scI, scPx, scChunks, scJ, scSent, scNet, scUps, scLast, scPauses>>
    /\ UNCHANGED exceptScroll

\* One loop iteration dispatched as a single smooth scroll: lines 382, 392-400.
ScrollStepWhole ==
    /\ scPc = "step" /\ scI < scSteps
    /\ \E r \in Intn(500), reading \in BOOLEAN :
         /\ scPx' = ScrollPx(r)
         /\ scLast' = ScrollPx(r)
         /\ scSent' = ScrollPx(r)
         /\ scNet' = scNet + ScrollPx(r)
         /\ scPauses' = ScrollStepPauses(reading)
    /\ scChunks' = 1 /\ scJ' = 1
    /\ scI' = scI + 1
    /\ UNCHANGED <<scPc, scSteps, scUps>>
    /\ UNCHANGED exceptScroll

\* One loop iteration that scrolls in chunks is started: lines 382-386.
ScrollStepChunked ==
    /\ scPc = "step" /\ scI < scSteps
    /\ \E r \in Intn(500), c \in Intn(3) :
         /\ scPx' = ScrollPx(r)
         /\ scChunks' = ScrollChunks(c)
    /\ scJ' = 0 /\ scSent' = 0
    /\ scPc' = "chunk"
    /\ UNCHANGED <<scSteps, scI, scNet, scUps, scLast, scPauses>>
    /\ UNCHANGED exceptScroll

\* One chunk: scrollBy(px/chunks) and SleepRandom(100, 300); after the last
\* chunk the pauses that end the step: lines 387-400.
ScrollChunkDispatch ==
    /\ scPc = "chunk" /\ scJ < scChunks
    /\ scLast' = ScrollChunk(scPx, scChunks)
    /\ scSent' = scSent + ScrollChunk(scPx, scChunks)
    /\ scNet' = scNet + ScrollChunk(scPx, scChunks)
    /\ scJ' = scJ + 1
    /\ IF scJ + 1 = scChunks
       THEN /\ \E reading \in BOOLEAN :
                 scPauses' = <<Pause("SleepRandom", 100, 300)>> \o ScrollStepPauses(reading)
            /\ scI' = scI + 1
            /\ scPc' = "step"
       ELSE /\ scPauses' = <<Pause("SleepRandom", 100, 300)>>
            /\ UNCHANGED <<scI, scPc>>
    /\ UNCHANGED <<scSteps, scPx, scChunks, scUps>>
    /\ UNCHANGED exceptScroll

\* After the loop, with probability 0.4, one scroll back up and
\* SleepRandom(300, 700): lines 404-407.
ScrollBackUp ==
    /\ scPc = "step" /\ scI = scSteps
    /\ \E r \in Intn(120) :
         /\ scLast' = ScrollBack(r)
         /\ scNet' = scNet + ScrollBack(r)
    /\ scUps' = scUps + 1
    /\ scPauses' = <<Pause("SleepRandom", 300, 700)>>
    /\ scPc' = "done"
    /\ UNCHANGED <<scSteps, scI, scPx, scChunks, scJ, scSent>>
    /\ UNCHANGED exceptScroll

\* After the loop, with probability 0.6, nothing more.
ScrollNoBackUp ==
    /\ scPc = "step" /\ scI = scSteps
    /\ scPc' = "done"
    /\ UNCHANGED <<scSteps, scI, scPx, scChunks, scJ, scSent, scNet, scUps, scLast, scPauses>>
    /\ UNCHANGED exceptScroll

\* ScrollHumanLike returns; it keeps no state between calls.
ScrollReturn ==
    /\ scPc = "done"
    /\ scPc' = "idle"
    /\ scSteps' = 0 /\ scI' = 0 /\ scPx' = 0 /\ scChunks' = 0 /\ scJ' = 0
    /\ scSent' = 0 /\ scNet' = 0 /\ scUps' = 0 /\ scLast' = 0
    /\ scPauses' = <<>>
    /\ UNCHANGED exceptScroll

ScrollNext ==
    \/ ScrollBegin
    \/ ScrollStepWhole
    \/ ScrollStepChunked
    \/ ScrollChunkDispatch
    \/ ScrollBackUp
    \/ ScrollNoBackUp
    \/ ScrollReturn

----------------------------------------------------------------------------
(* Claims on the scroll pattern generator *)

\* A step of the loop has just been completed: all its scrollBy calls are out.
ScrollStepComplete == scPc \in {"step", "done"} /\ scI > 0 /\ scJ = scChunks

\* C7: every run of ScrollHumanLike performs between 3 and 7 downward scroll
\* steps, every step's distance is between 300 and 800 px, and so is the total
\* of a step dispatched as 2-4 sub-chunks.
C7_ScrollStepBounds ==
    /\ scPc # "idle" => (3 <= scSteps /\ scSteps <= 7 /\ scI <= scSteps)
    /\ scPc = "done" => scI = scSteps
    /\ scPc = "chunk" => (2 <= scChunks /\ scChunks <= 4 /\ scLast >= 0)
    /\ (scPc \in {"step", "chunk", "done"} /\ scPx # 0) => (300 <= scPx /\ scPx <= 800)
    /\ ScrollStepComplete =>
          /\ 300 <= scSent /\ scSent <= 800
          /\ scSent <= scPx
          /\ scChunks \in 1 .. 4

\* C7 witness: a run of 7 steps is over whose last step, of 301 px, went out
\* as 3 chunks of 100 px.
C7_Witness ==
    /\ scPc = "done" /\ scSteps = 7 /\ scI = 7
    /\ scPx = 301 /\ scChunks = 3 /\ scJ = 3 /\ scSent = 300

\* C24: in every run of ScrollHumanLike all scroll deltas of the 3-7 steps
\* are downward (positive), and at most one upward scroll occurs, of 100-220
\* px, dispatched only after every downward step has been dispatched; the net
\* requested displacement of a run is therefore always downward.
C24_ScrollDownThenBackOnce ==
    /\ scPc \in {"step", "chunk"} =>
          /\ scUps = 0
          /\ (scI > 0 \/ scJ > 0) => scLast > 0 /\ scNet > 0
    /\ scUps <= 1
    /\ scUps = 1 =>
          /\ scPc = "done" /\ scI = scSteps
          /\ -220 <= scLast /\ scLast <= -100
    /\ scPc = "done" =>
          /\ 3 <= scI /\ scI <= 7
          /\ scUps = 0 => scLast > 0
          /\ scNet > 0

\* C24 witness: a run of 3 steps of 300 px each ended with the longest scroll
\* back up, 219 px, and a net displacement of 681 px downward.
C24_Witness ==
    /\ scPc = "done" /\ scSteps = 3 /\ scUps = 1
    /\ scLast = -219 /\ scNet = 681

----------------------------------------------------------------------------
(* Strings: a Go string is a sequence of bytes; range decodes it as UTF-8 *)

RuneError == 65533

\* A continuation byte of UTF-8 within [lo, hi].
IsCont(text, p, lo, hi) == p <= Len(text) /\ text[p] >= lo /\ text[p] <= hi

\* for i, r := range text: the rune r that starts at byte position p (from 1)
\* and its width in bytes; ill-formed UTF-8 decodes as RuneError, width 1.
DecodeRune(text, p) ==
    LET b0 == text[p]
        bad == [r |-> RuneError, w |-> 1]
    IN  IF b0 < 128 THEN [r |-> b0, w |-> 1]
        ELSE IF b0 >= 194 /\ b0 <= 223 THEN
            IF IsCont(text, p + 1, 128, 191)
            THEN [r |-> (b0 - 192) * 64 + (text[p + 1] - 128), w |-> 2]
            ELSE bad
        ELSE IF b0 >= 224 /\ b0 <= 239 THEN
            IF /\ IsCont(text, p + 1, IF b0 = 224 THEN 160 ELSE 128,
                                      IF b0 = 237 THEN 159 ELSE 191)
               /\ IsCont(text, p + 2, 128, 191)
            THEN [r |-> (b0 - 224) * 4096 + (text[p + 1] - 128) * 64 + (text[p + 2] - 128),
                  w |-> 3]
            ELSE bad
        ELSE IF b0 >= 240 /\ b0 <= 244 THEN
            IF /\ IsCont(text, p + 1, IF b0 = 240 THEN 144 ELSE 128,
                                      IF b0 = 244 THEN 143 ELSE 191)
               /\ IsCont(text, p + 2, 128, 191)
               /\ IsCont(text, p + 3, 128, 191)
            THEN [r |-> (b0 - 240) * 262144 + (text[p + 1] - 128) * 4096
                          + (text[p + 2] - 128) * 64 + (text[p + 3] - 128),
                  w |-> 4]
            ELSE bad
        ELSE bad

\* The rune written as its low byte alone.
EncodeRuneByte(r) == <<r % 256>>

\* string(r): the UTF-8 encoding of a rune; a rune that is no valid code point
\* is written as U+FFFD.
EncodeRune(r) ==
    IF r < 0 \/ r > 1114111 \/ (r >= 55296 /\ r <= 57343) THEN <<239, 191, 189>>
    ELSE IF r < 128 THEN <<r>>
    ELSE IF r < 2048 THEN <<192 + (r \div 64), 128 + (r % 64)>>
    ELSE IF r < 65536 THEN
        <<224 + (r \div 4096), 128 + ((r \div 64) % 64), 128 + (r % 64)>>
    ELSE <<240 + (r \div 262144), 128 + ((r \div 4096) % 64),
           128 + ((r \div 64) % 64), 128 + (r % 64)>>

\* The string is well-formed UTF-8 from byte position p on.
RECURSIVE ValidFrom(_, _)
ValidFrom(text, p) ==
    IF p > Len(text) THEN TRUE
    ELSE LET d == DecodeRune(text, p)
         IN  /\ ~(d.r = RuneError /\ d.w = 1)
             /\ ValidFrom(text, p + d.w)

ValidUTF8(text) == ValidFrom(text, 1)

\* The bytes of a sequence of strings, concatenated.
RECURSIVE Flatten(_)
Flatten(ss) == IF ss = <<>> THEN <<>> ELSE Head(ss) \o Flatten(Tail(ss))

----------------------------------------------------------------------------
(* Typing generator: TypeHumanLike, randomNearbyRune *)

\* The proximity table of randomNearbyRune and its generic fallback,
\* as character codes.
NearbyOpts(r) ==
    CASE r = 97  -> <<115, 113, 119, 122>>     \* 'a': s q w z
      [] r = 101 -> <<119, 114, 100>>          \* 'e': w r d
      [] r = 105 -> <<117, 111, 107, 106>>     \* 'i': u o k j
      [] r = 111 -> <<105, 112, 108, 107>>     \* 'o': i p l k
      [] r = 115 -> <<97, 100, 119, 120>>      \* 's': a d w x
      [] r = 116 -> <<114, 121, 103, 102>>     \* 't': r y g f
      [] OTHER   -> <<97, 101, 105, 111, 117, 115, 110, 116, 114, 108>>
                                               \* a e i o u s n t r l

\* randomNearbyRune(r): the strings it can return, opts[rand.Intn(len(opts))].
randomNearbyRune(r) ==
    {EncodeRune(NearbyOpts(r)[k]) : k \in 1 .. Len(NearbyOpts(r))}

\* The typo branch is open to the character at byte index i: i > 3 (and the
\* draw rand.Float64() < 0.02).
TypoAllowed(i) == i > 3

\* The correction typed as a space.
TypoCorrectionSpace == <<32>>

\* The string sent to undo the wrong character: "\b".
TypoCorrection == <<8>>

\* baseDelay of the character r at byte index i (from 0) of text.
BaseDelay(text, i, r) ==
    IF i < 10 THEN 40
    ELSE IF r = 32 \/ r = 44 \/ r = 46 THEN 60
    ELSE IF i > 0 /\ text[i] = 32 THEN 35
    ELSE 25

\* The text field: el.Input(s) appends the character s, el.Input("\b")
\* removes the last character; a command the surface fails changes nothing.
SurfaceInput(buf, s, ok) ==
    IF ~ok THEN buf
    ELSE IF s = <<8>> THEN (IF buf = <<>> THEN buf ELSE SubSeq(buf, 1, Len(buf) - 1))
    ELSE Append(buf, s)

\* The records of a dispatched el.Input and of a sleep call.
EvInput(s, ok) == [kind |-> IF s = <<8>> THEN "backspace" ELSE "insert", s |-> s, ok |-> ok]
EvPause(fn, a, b) == [kind |-> "pause", s |-> <<>>, ok |-> TRUE, pause |-> Pause(fn, a, b)]

\* How many characters beyond its padding a text to type has at most.
MaxTail == 2

\* How many commands of one call the surface may fail at most.
MaxFaults == 2

\* The bytes the texts are made of: ' ', 'a', 'n', and the two bytes of U+00E9.
TextBytes == {32, 97, 110, 195, 169}

RECURSIVE SeqsUpTo(_, _)
SeqsUpTo(S, n) ==
    IF n = 0 THEN {<<>>}
    ELSE SeqsUpTo(S, n - 1)
            \cup {Append(t, b) : t \in {u \in SeqsUpTo(S, n - 1) : Len(u) = n - 1}, b \in S}

\* Beginnings of a text: none, four letters, two two-byte letters, ten letters.
TextPads ==
    {<<>>, <<97, 97, 97, 97>>, <<195, 169, 195, 169>>,
     <<97, 97, 97, 97, 97, 97, 97, 97, 97, 97>>}

\* The strings TypeHumanLike is called with: notes and messages, which
\* sendOne cuts at a byte count (note[:280]), so also ill-formed ones.
Texts == {pad \o t : pad \in TextPads, t \in SeqsUpTo(TextBytes, MaxTail)}

\* The answers the surface can give to a command.
Outcomes == IF tyFaults > 0 THEN {TRUE, FALSE} ELSE {TRUE}

TypeIdle ==
    /\ tyPc = "idle"
    /\ tyText = <<>> /\ tyIdx = 0 /\ tyBuf = <<>>
    /\ tyEvents = <<>> /\ tyDelays = <<>>
    /\ tyTypos = FALSE /\ tyFaults = 0 /\ tyRet = "none"

\* TypeHumanLike(el, text) is called on an empty field, the surface sound.
TypeBegin ==
    /\ tyPc = "idle"
    /\ \E text \in Texts : tyText' = text
    /\ tyPc' = "loop"
    /\ tyFaults' = 0
    /\ UNCHANGED <<tyIdx, tyBuf, tyEvents, tyDelays, tyTypos, tyRet>>
    /\ UNCHANGED exceptType

\* TypeHumanLike(el, text) is called on an empty field, the surface liable to
\* fail commands.
TypeBeginFaulty ==
    /\ tyPc = "idle"
    /\ \E text \in Texts : tyText' = text
    /\ tyPc' = "loop"
    /\ tyFaults' = MaxFaults
    /\ UNCHANGED <<tyIdx, tyBuf, tyEvents, tyDelays, tyTypos, tyRet>>
    /\ UNCHANGED exceptType

\* The typo branch is taken: el.Input(wrongChar), its error discarded, and
\* SleepRandom(80, 180): lines 320-323.
TypoInsert ==
    /\ tyPc = "loop" /\ tyIdx < Len(tyText)
    /\ TypoAllowed(tyIdx)
    /\ \E wrongChar \in randomNearbyRune(DecodeRune(tyText, tyIdx + 1).r), ok \in Outcomes :
         /\ tyBuf' = SurfaceInput(tyBuf, wrongChar, ok)
         /\ tyEvents' = <<EvInput(wrongChar, ok), EvPause("SleepRandom", 80, 180)>>
         /\ tyFaults' = IF ok THEN tyFaults ELSE tyFaults - 1
    /\ tyDelays' = <<>>
    /\ tyTypos' = TRUE
    /\ tyPc' = "typo1"
    /\ UNCHANGED <<tyText, tyIdx, tyRet>>
    /\ UNCHANGED exceptType

\* The correction: el.Input("\b"), its error discarded, and
\* SleepRandom(100, 250): lines 326-327.
TypoBackspace ==
    /\ tyPc = "typo1"
    /\ \E ok \in Outcomes :
         /\ tyBuf' = SurfaceInput(tyBuf, TypoCorrection, ok)
         /\ tyEvents' = tyEvents \o <<EvInput(TypoCorrection, ok), EvPause("SleepRandom", 100, 250)>>
         /\ tyFaults' = IF ok THEN tyFaults ELSE tyFaults - 1
    /\ tyPc' = "typo2"
    /\ UNCHANGED <<tyText, tyIdx, tyDelays, tyTypos, tyRet>>
    /\ UNCHANGED exceptType

\* The character itself: el.Input(ch) succeeds: line 330.
TypeChar ==
    /\ tyPc \in {"loop", "typo2"} /\ tyIdx < Len(tyText)
    /\ LET ch == EncodeRune(DecodeRune(tyText, tyIdx + 1).r)
       IN  /\ tyBuf' = SurfaceInput(tyBuf, ch, TRUE)
           /\ tyEvents' = tyEvents \o <<EvInput(ch, TRUE)>>
    /\ tyDelays' = <<>>
    /\ tyPc' = "typed"
    /\ UNCHANGED <<tyText, tyIdx, tyTypos, tyFaults, tyRet>>
    /\ UNCHANGED exceptType

\* The character itself: el.Input(ch) fails and TypeHumanLike returns the
\* error: lines 330-332.
TypeCharFails ==
    /\ tyPc \in {"loop", "typo2"} /\ tyIdx < Len(tyText)
    /\ tyFaults > 0
    /\ LET ch == EncodeRune(DecodeRune(tyText, tyIdx + 1).r)
       IN  /\ tyBuf' = SurfaceInput(tyBuf, ch, FALSE)
           /\ tyEvents' = tyEvents \o <<EvInput(ch, FALSE)>>
    /\ tyDelays' = <<>>
    /\ tyFaults' = tyFaults - 1
    /\ tyRet' = "err"
    /\ tyPc' = "done"
    /\ UNCHANGED <<tyText, tyIdx, tyTypos>>
    /\ UNCHANGED exceptType

\* The typing rhythm after the character: SleepGaussian(baseDelay, 20), its
\* duration kept, and with probability 0.05 the call SleepGaussian(300, 150);
\* the loop moves on to the next character: lines 335-350.
TypeRhythm ==
    /\ tyPc = "typed"
    /\ LET d == DecodeRune(tyText, tyIdx + 1)
       IN  /\ \E s1 \in SleepGaussian(BaseDelay(tyText, tyIdx, d.r), 20), reread \in BOOLEAN :
                tyDelays' = <<s1>> \o (IF reread THEN <<Pause("SleepGaussian", 300, 150)>>
                                                 ELSE <<>>)
           /\ tyIdx' = tyIdx + d.w
    /\ tyEvents' = <<>>
    /\ tyPc' = "loop"
    /\ UNCHANGED <<tyText, tyBuf, tyTypos, tyFaults, tyRet>>
    /\ UNCHANGED exceptType

\* The range loop is over: return nil: line 352.
TypeFinish ==
    /\ tyPc = "loop" /\ tyIdx >= Len(tyText)
    /\ tyRet' = "nil"
    /\ tyPc' = "done"
    /\ UNCHANGED <<tyText, tyIdx, tyBuf, tyEvents, tyDelays, tyTypos, tyFaults>>
    /\ UNCHANGED exceptType

\* The caller goes on; TypeHumanLike keeps no state between calls.
TypeReturn ==
    /\ tyPc = "done"
    /\ tyPc' = "idle"
    /\ tyText' = <<>> /\ tyIdx' = 0 /\ tyBuf' = <<>>
    /\ tyEvents' = <<>> /\ tyDelays' = <<>>
    /\ tyTypos' = FALSE /\ tyFaults' = 0 /\ tyRet' = "none"
    /\ UNCHANGED exceptType

\* Typing against a sound surface (every command takes effect).
TypeNext ==
    \/ TypeBegin
    \/ TypoInsert
    \/ TypoBackspace
    \/ TypeChar
    \/ TypeRhythm
    \/ TypeFinish
    \/ TypeReturn

\* Typing against a surface that may fail commands.
TypeFaultyNext ==
    \/ TypeBeginFaulty
    \/ TypoInsert
    \/ TypoBackspace
    \/ TypeChar
    \/ TypeCharFails
    \/ TypeRhythm
    \/ TypeFinish
    \/ TypeReturn

----------------------------------------------------------------------------
(* Claims on the typing generator *)

\* The characters the loop has typed once it stands at byte index n (from 0):
\* string(r) for each r of the range loop before n.
RECURSIVE TypedFrom(_, _, _)
TypedFrom(text, p, n) ==
    IF p > n \/ p > Len(text) THEN <<>>
    ELSE <<EncodeRune(DecodeRune(text, p).r)>> \o TypedFrom(text, p + DecodeRune(text, p).w, n)

Typed(text, n) == TypedFrom(text, 1, n)

\* C1 as stated: for every text T and every outcome of the random choices,
\* after TypeHumanLike(T) has run to completion against an initially empty
\* buffer (insert appends, backspace removes the last character) the buffer
\* content equals T exactly.
C1_RoundTripEveryText ==
    (tyPc = "done" /\ tyRet = "nil") => Flatten(tyBuf) = tyText

\* C1 amended: for every well-formed UTF-8 text T and every outcome of the
\* random choices, after TypeHumanLike(T) has run to completion against an
\* initially empty buffer the buffer content equals T exactly; no typo
\* character survives.
C1_RoundTripWellFormed ==
    (tyPc = "done" /\ tyRet = "nil" /\ ValidUTF8(tyText)) =>
        /\ Flatten(tyBuf) = tyText
        /\ tyBuf = Typed(tyText, Len(tyText))

\* C1 witness: a text with two-byte characters was typed to the end, a typo
\* was injected and corrected on the way, and the field holds the text.
C1_Witness ==
    /\ tyPc = "done" /\ tyRet = "nil"
    /\ tyTypos
    /\ tyText = <<195, 169, 195, 169, 195, 169>>
    /\ Flatten(tyBuf) = tyText

\* The kinds of the events of the current character, in order.
EventKinds == [k \in 1 .. Len(tyEvents) |-> tyEvents[k].kind]

TypoOrder == <<"insert", "pause", "backspace", "pause", "insert">>

\* C8: whenever TypeHumanLike injects a typo for a source character, the
\* events for that character occur in exactly this order: insert wrong
\* character, pause, backspace, pause, insert correct character; the correct
\* character is never inserted before the wrong one has been deleted.
C8_TypoEventOrder ==
    /\ tyPc = "typo1" =>
          /\ EventKinds = SubSeq(TypoOrder, 1, 2)
          /\ tyBuf = Append(Typed(tyText, tyIdx), tyEvents[1].s)
    /\ tyPc = "typo2" =>
          /\ EventKinds = SubSeq(TypoOrder, 1, 4)
          /\ tyBuf = Typed(tyText, tyIdx)
    /\ tyPc = "typed" =>
          /\ EventKinds \in {TypoOrder, <<"insert">>}
          /\ tyEvents[Len(tyEvents)].s = EncodeRune(DecodeRune(tyText, tyIdx + 1).r)
          /\ tyBuf = Typed(tyText, tyIdx + 1)
          /\ Len(tyEvents) = 5 =>
                /\ tyEvents[1].s \in randomNearbyRune(DecodeRune(tyText, tyIdx + 1).r)
                /\ tyEvents[2].pause = Pause("SleepRandom", 80, 180)
                /\ tyEvents[4].pause = Pause("SleepRandom", 100, 250)
    /\ tyPc \in {"idle", "loop"} => tyEvents = <<>>

\* C8 witness: the character 'a' at byte index 4 was typed after the wrong
\* character 's' had been inserted and deleted.
C8_Witness ==
    /\ tyPc = "typed" /\ tyIdx = 4
    /\ Len(tyEvents) = 5
    /\ tyEvents[1].s = <<115>> /\ tyEvents[3].s = <<8>> /\ tyEvents[5].s = <<97>>

\* The characters (runes of the range loop) of text.
CharCount(text) == Len(Typed(text, Len(text)))

\* The index, counted in characters from 0, of the character at byte index n.
CharIndex(text, n) == Len(Typed(text, n))

\* The wrong-character inserts among the events of the current character.
WrongInserts ==
    {k \in 1 .. Len(tyEvents) :
        /\ tyEvents[k].kind = "insert"
        /\ k < Len(tyEvents)
        /\ tyEvents[k + 1].kind = "pause"}

\* C20 as stated: TypeHumanLike never injects a typo for a source character
\* at index i <= 3, and injects at most one typo per source character;
\* consequently a text of at most 4 characters is typed as exactly its own
\* characters with no wrong insert and no backspace.
C20_NoTypoInFirstFour ==
    /\ tyPc \in {"typo1", "typo2"} => CharIndex(tyText, tyIdx) > 3
    /\ Cardinality(WrongInserts) <= 1
    /\ CharCount(tyText) <= 4 =>
          /\ ~tyTypos
          /\ \A k \in 1 .. Len(tyEvents) : tyEvents[k].kind # "backspace"
          /\ tyPc = "done" => tyBuf = Typed(tyText, Len(tyText))

\* C11 as stated: a failure the surface reports for a low-level command
\* (here a text insert or a backspace of TypeHumanLike) is never swallowed:
\* a call during which a command failed returns an error.
C11_FailureReturned ==
    tyPc = "done" /\ tyFaults < MaxFaults => tyRet = "err"

\* The byte index (from 0) at which the character that ends at byte index
\* n starts.
RECURSIVE LastStartFrom(_, _, _)
LastStartFrom(text, p, n) ==
    IF p + DecodeRune(text, p + 1).w >= n THEN p
    ELSE LastStartFrom(text, p + DecodeRune(text, p + 1).w, n)

LastStart(text, n) == LastStartFrom(text, 0, n)

\* The range of C25 for the character that starts at byte index p.
RhythmRange(text, p) ==
    LET r == DecodeRune(text, p + 1).r
    IN  IF CharIndex(text, p) < 10 THEN <<40, 100>>
        ELSE IF r \in {32, 44, 46} THEN <<60, 120>>
        ELSE IF DecodeRune(text, LastStart(text, p) + 1).r = 32 THEN <<35, 95>>
        ELSE <<25, 85>>

\* C25 as stated: the delay TypeHumanLike waits after inserting the source
\* character at index i lies in 40-100 ms if i < 10, otherwise in 60-120 ms
\* if the character is a space, comma or period, otherwise in 35-95 ms if the
\* previous character was a space, and otherwise in 25-85 ms (before any
\* extra re-reading pause).
C25_RhythmDelayRanges ==
    (tyPc = "loop" /\ tyDelays # <<>>) =>
        LET range == RhythmRange(tyText, LastStart(tyText, tyIdx))
        IN  /\ tyDelays[1] # <<>>
            /\ range[1] <= tyDelays[1][1]
            /\ tyDelays[1][1] <= range[2]

\* C26 as stated: the character inserted as a typo is never the source
\* character itself, whether randomNearbyRune takes it from the proximity
\* table or from the generic fallback set.
C26_TypoIsWrongCharacter ==
    tyPc = "typo1" =>
        tyEvents[1].s # EncodeRune(DecodeRune(tyText, tyIdx + 1).r)

\* The bytes s begin the bytes t.
BeginsText(s, t) == Len(s) <= Len(t) /\ SubSeq(t, 1, Len(s)) = s

\* C27 as stated: at every point during TypeHumanLike the field content
\* (starting empty, the surface commands succeeding) is either a prefix of the
\* requested text or such a prefix followed by exactly one wrong character; a
\* typo is always deleted before the next source character is inserted; and
\* whenever TypeHumanLike returns an error the content is a prefix of the
\* text, with no typo left uncorrected.
C27_PrefixOrOneTypo ==
    /\ (tyPc # "idle" /\ tyFaults = MaxFaults) =>
          \/ BeginsText(Flatten(tyBuf), tyText)
          \/ /\ tyBuf # <<>>
             /\ BeginsText(Flatten(SubSeq(tyBuf, 1, Len(tyBuf) - 1)), tyText)
    /\ (tyPc = "typed" /\ tyFaults = MaxFaults) =>
          BeginsText(Flatten(tyBuf), tyText)
    /\ (tyPc = "done" /\ tyRet = "err") =>
          BeginsText(Flatten(tyBuf), tyText)

\* The same on well-formed texts only (the ill-formed ones are the case of C1).
C27_OnWellFormed == ValidUTF8(tyText) => C27_PrefixOrOneTypo

----------------------------------------------------------------------------
(* Trajectory generator: MoveMouseHumanLike, easeInOutCubic, cubicBezier *)

\* The resolution of the fixed-point arithmetic that stands for float64: the
\* eased parameter t is carried in units of 1/Resolution.
Resolution == 100

\* int(a / sqrt(d2)) for a >= 0 and d2 > 0: the quotient truncated toward zero.
RECURSIVE RootQuotient(_, _, _)
RootQuotient(a, d2, k) ==
    IF (k + 1) * (k + 1) * d2 <= a * a THEN RootQuotient(a, d2, k + 1) ELSE k

\* int(sqrt(d2) / 20).
RECURSIVE RootOver20(_, _)
RootOver20(d2, k) ==
    IF 400 * (k + 1) * (k + 1) <= d2 THEN RootOver20(d2, k + 1) ELSE k

\* int(dist/20) for dist = sqrt((toX-fromX)^2 + (toY-fromY)^2).
Dist20(from, to) ==
    RootOver20((to[1] - from[1]) * (to[1] - from[1]) + (to[2] - from[2]) * (to[2] - from[2]), 0)

\* steps := 40 + int(dist/20) + rand.Intn(15)
MoveSteps(from, to, r) == 40 + Dist20(from, to) + r

\* The control points: from + k*(to-from)/3 + rand.Intn(100) - 50, for
\* k = 1, 2 and both axes; d holds the four draws less 50.
ControlPoints(from, to, d) ==
    <<from[1] + GoDiv(to[1] - from[1], 3) + d[1],
      from[2] + GoDiv(to[2] - from[2], 3) + d[2],
      from[1] + GoDiv(2 * (to[1] - from[1]), 3) + d[3],
      from[2] + GoDiv(2 * (to[2] - from[2]), 3) + d[4]>>

\* The overshoot point: to + int(mag * (cos, sin)(atan2(dy, dx))); atan2(0, 0)
\* is 0.
OvershootPoint(from, to, mag) ==
    LET dx == to[1] - from[1]
        dy == to[2] - from[2]
        d2 == dx * dx + dy * dy
        part(c) == IF c >= 0 THEN RootQuotient(mag * c, d2, 0)
                             ELSE -RootQuotient(mag * (-c), d2, 0)
    IN  IF d2 = 0 THEN <<to[1] + mag, to[2]>>
        ELSE <<to[1] + part(dx), to[2] + part(dy)>>

\* easeInOutCubic(i/steps), in units of 1/Resolution.
EaseInOutCubic(i, steps) ==
    IF 2 * i < steps
    THEN GoDiv(4 * Resolution * i * i * i, steps * steps * steps)
    ELSE Resolution
            - GoDiv(Resolution * (2 * steps - 2 * i) * (2 * steps - 2 * i) * (2 * steps - 2 * i),
                    2 * steps * steps * steps)

\* int(cubicBezier(p0, p1, p2, p3, t)) for t = n/Resolution.
CubicBezier(p0, p1, p2, p3, n) ==
    LET m == Resolution - n
    IN  GoDiv(m * m * m * p0 + 3 * m * m * n * p1 + 3 * m * n * n * p2 + n * n * n * p3,
              Resolution * Resolution * Resolution)

\* The blend of the overshoot phase taken over six steps instead of five.
OvershootBlendSix(ov, to, k) == GoDiv(ov * (6 - k) + to * k, 6)

\* The overshoot phase, k = i - (steps-5) in 1..5: cubicBezier(.., overshoot,
\* 1.0) is the overshoot point itself, blended with the target by k/5.
OvershootBlend(ov, to, k) == GoDiv(ov * (5 - k) + to * k, 5)

\* The point of step i before the jitter.
MovePoint(from, to, ctrl, over, steps, i) ==
    IF over.on /\ i > steps - 5
    THEN <<OvershootBlend(over.x, to[1], i - (steps - 5)),
           OvershootBlend(over.y, to[2], i - (steps - 5))>>
    ELSE <<CubicBezier(from[1], ctrl[1], ctrl[3], to[1], EaseInOutCubic(i, steps)),
           CubicBezier(from[2], ctrl[2], ctrl[4], to[2], EaseInOutCubic(i, steps))>>

\* rand.Intn(3) - 1, the jitter of a coordinate.
Jitter == {-1, 0, 1}

\* The sleep after step i: 8 + rand.Intn(10) ms, 5 more at the endpoints.
MoveDelay(i, steps) ==
    IF i < 5 \/ i > steps - 5 THEN Pause("time.Sleep", 13, 22) ELSE Pause("time.Sleep", 8, 17)

\* The overshoot of a call: none (rand.Float64() >= 0.3, mag = 0), or the
\* point overshootMag = 5 + rand.Intn(15) pixels beyond the target.
Overshoot(from, to, mag) ==
    IF mag = 0 THEN [on |-> FALSE, x |-> 0, y |-> 0]
    ELSE [on |-> TRUE, x |-> OvershootPoint(from, to, mag)[1],
                       y |-> OvershootPoint(from, to, mag)[2]]

\* The random draws of one call, taken at the ends of their ranges: steps is
\* rand.Intn(15), ctrl the four rand.Intn(100) - 50, mag the overshoot.
MoveDraws ==
    {[steps |-> 0, ctrl |-> <<49, 49, 49, 49>>, mag |-> 0],
     [steps |-> 14, ctrl |-> <<-50, 49, 49, -50>>, mag |-> 0],
     [steps |-> 0, ctrl |-> <<-50, -50, 49, 49>>, mag |-> 5],
     [steps |-> 14, ctrl |-> <<49, 49, 49, 49>>, mag |-> 19],
     [steps |-> 0, ctrl |-> <<0, 0, 0, 0>>, mag |-> 19]}

\* The (from, to) pairs MoveMouseHumanLike is called with.
MovePairs ==
    {<<<<0, 0>>, <<0, 0>>>>, <<<<700, 450>>, <<130, 112>>>>,
     <<<<640, 360>>, <<660, 360>>>>, <<<<100, 100>>, <<400, 510>>>>}

MoveIdle ==
    /\ mvPc = "idle"
    /\ mvFrom = <<>> /\ mvTo = <<>> /\ mvSteps = 0 /\ mvCtrl = <<>>
    /\ mvOver = [on |-> FALSE, x |-> 0, y |-> 0]
    /\ mvI = 0 /\ mvFirst = <<>> /\ mvLast = <<>> /\ mvCount = 0
    /\ mvPause = <<>>

\* MoveMouseHumanLike(p, fromX, fromY, toX, toY) is entered: lines 94-114.
MoveEnter(from, to) ==
    /\ mvPc = "idle"
    /\ mvFrom' = from /\ mvTo' = to
    /\ \E w \in MoveDraws :
         /\ mvSteps' = MoveSteps(from, to, w.steps)
         /\ mvCtrl' = ControlPoints(from, to, w.ctrl)
         /\ mvOver' = Overshoot(from, to, w.mag)
    /\ mvPc' = "loop"
    /\ UNCHANGED <<mvI, mvFirst, mvLast, mvCount, mvPause>>

MoveBegin ==
    /\ \E pair \in MovePairs : MoveEnter(pair[1], pair[2])
    /\ UNCHANGED exceptMove

\* One iteration of the main loop: the point, its jitter, the move
\* dispatched (its error discarded) and the sleep: lines 117-150.
MoveStep ==
    /\ mvPc = "loop" /\ mvI <= mvSteps
    /\ LET pt == MovePoint(mvFrom, mvTo, mvCtrl, mvOver, mvSteps, mvI)
       IN  \E jx \in Jitter, jy \in Jitter :
             /\ mvLast' = <<pt[1] + jx, pt[2] + jy>>
             /\ mvFirst' = IF mvCount = 0 THEN <<pt[1] + jx, pt[2] + jy>> ELSE mvFirst
    /\ mvCount' = mvCount + 1
    /\ mvPause' = MoveDelay(mvI, mvSteps)
    /\ mvI' = IF mvI = mvSteps THEN 0 ELSE mvI + 1
    /\ mvPc' = IF mvI = mvSteps THEN "settle" ELSE "loop"
    /\ UNCHANGED <<mvFrom, mvTo, mvSteps, mvCtrl, mvOver>>
    /\ UNCHANGED exceptMove

\* A micro-correction move (probability 0.4, two of them): the target plus
\* rand.Intn(3) - 1 on each axis, then 20 + rand.Intn(30) ms: lines 153-164.
MoveMicro ==
    /\ mvPc \in {"settle", "micro"}
    /\ \E dx \in Jitter, dy \in Jitter : mvLast' = <<mvTo[1] + dx, mvTo[2] + dy>>
    /\ mvCount' = mvCount + 1
    /\ mvPause' = Pause("time.Sleep", 20, 49)
    /\ mvI' = mvI + 1
    /\ mvPc' = IF mvI + 1 = 2 THEN "done" ELSE "micro"
    /\ UNCHANGED <<mvFrom, mvTo, mvSteps, mvCtrl, mvOver, mvFirst>>
    /\ UNCHANGED exceptMove

\* No micro-correction (probability 0.6): return nil: line 166.
MoveNoMicro ==
    /\ mvPc = "settle"
    /\ mvPc' = "done"
    /\ UNCHANGED <<mvFrom, mvTo, mvSteps, mvCtrl, mvOver, mvI, mvFirst, mvLast, mvCount, mvPause>>
    /\ UNCHANGED exceptMove

\* The state of a call that has returned is dropped.
MoveReset ==
    /\ mvPc' = "idle"
    /\ mvFrom' = <<>> /\ mvTo' = <<>> /\ mvSteps' = 0 /\ mvCtrl' = <<>>
    /\ mvOver' = [on |-> FALSE, x |-> 0, y |-> 0]
    /\ mvI' = 0 /\ mvFirst' = <<>> /\ mvLast' = <<>> /\ mvCount' = 0
    /\ mvPause' = <<>>

\* MoveMouseHumanLike has returned nil and its caller goes on.
MoveReturn ==
    /\ mvPc = "done"
    /\ MoveReset
    /\ UNCHANGED exceptMove

MoveNext ==
    \/ MoveBegin
    \/ MoveStep
    \/ MoveMicro
    \/ MoveNoMicro
    \/ MoveReturn

\* |a - b| <= d on each axis.
Within(a, b, d) == Abs(a[1] - b[1]) <= d /\ Abs(a[2] - b[2]) <= d

\* C2 as stated: for every pair (from, to), from = to included, a call that
\* has returned has dispatched at least one pointer move, the first exactly
\* at from, the last within 3 px of to on each axis.
C2_FirstExactlyFrom ==
    mvPc = "done" =>
        /\ mvCount >= 1
        /\ mvFirst = mvFrom
        /\ Within(mvLast, mvTo, 3)

\* C2 (amended): for every pair (from, to), from = to included, a call that
\* has returned has dispatched at least one pointer move, the first within
\* 1 px of from on each axis (the jitter of every point) and the last,
\* overshoot and micro-correction moves included, within 3 px of to on each
\* axis.
C2_FirstNearFromLastNearTo ==
    mvPc = "done" =>
        /\ mvCount >= 1
        /\ Within(mvFirst, mvFrom, 1)
        /\ Within(mvLast, mvTo, 3)

\* A call with from = to that overshot, made its micro-corrections and did
\* not start exactly at from.
C2_Witness ==
    /\ mvPc = "done"
    /\ mvFrom = mvTo
    /\ mvOver.on
    /\ mvCount = mvSteps + 3
    /\ mvFirst # mvFrom

\* C6 as stated: a call with from = to dispatches exactly one pointer move,
\* at the point itself, and none away from it.
C6_DegenerateSinglePoint ==
    /\ (mvPc # "idle" /\ mvFrom = mvTo /\ mvCount >= 1) => mvLast = mvFrom
    /\ (mvPc = "done" /\ mvFrom = mvTo) => mvCount = 1

----------------------------------------------------------------------------
(* Click: ClickHumanLike *)

\* A quad is (x1, y1, x2, y2, x3, y3, x4, y4); the bounding box of the first
\* quad, as (minX, minY, maxX, maxY).
BoundingBox(quad) ==
    LET xs == {quad[i] : i \in {1, 3, 5, 7}}
        ys == {quad[i] : i \in {2, 4, 6, 8}}
        least(S) == CHOOSE v \in S : \A w \in S : v <= w
        most(S) == CHOOSE v \in S : \A w \in S : v >= w
    IN  <<least(xs), least(ys), most(xs), most(ys)>>

\* int(min + size*0.3 + rand.Float64()*size*0.4), the draw u in hundredths.
TargetCoord(min, size, u) == GoDiv(1000 * min + 300 * size + 4 * u * size, 1000)

\* The target: a point of the middle 40% of the bounding box on each axis.
ClickTarget(quad, ux, uy) ==
    LET box == BoundingBox(quad)
    IN  <<TargetCoord(box[1], box[3] - box[1], ux), TargetCoord(box[2], box[4] - box[2], uy)>>

\* Where the pointer is taken to start: (700, 450), or the centre of the
\* viewport for each dimension the page reports as positive.
ClickFrom(view) ==
    IF view.err THEN <<700, 450>>
    ELSE <<IF view.w > 0 THEN GoDiv(view.w, 2) ELSE 700,
           IF view.h > 0 THEN GoDiv(view.h, 2) ELSE 450>>

\* The fallback reports the failure to read the geometry.
FallbackResultOfShape(shape, click) == IF shape = "err" THEN "err" ELSE click

\* return el.Click("left", 1): the fallback's result is the click's.
FallbackResult(shape, click) == click

\* The pause before the press taken from the reaction time.
PreClickPauseShort == <<30, 90>>

\* SleepRandom(50, 150) before the press, SleepRandom(30, 90) before the release.
PreClickPause == <<50, 150>>
ReactionTime == <<30, 90>>

\* The calls ClickHumanLike makes, as the element and the page see them;
\* moves is the number of pointer moves dispatched before the call.
CkCall(fn, res) == [kind |-> fn, res |-> res]
CkSleep(fn, range) == [kind |-> "sleep", pause |-> Pause(fn, range[1], range[2])]
CkMouse(type, at, ok, moves) == [kind |-> type, at |-> at, ok |-> ok, moves |-> moves]
CkClick(button, count, res) == [kind |-> "click", button |-> button, count |-> count, res |-> res]

\* What the page answers to a call: el.Shape() fails, has no quads, or has a
\* first quad; the viewport read fails or reports (w, h); ux, uy are the two
\* rand.Float64() draws of the target, in hundredths.
NoView == [err |-> TRUE, w |-> 0, h |-> 0]
ClickInputs ==
    {[shape |-> "err", quad |-> <<>>, view |-> NoView, ux |-> 0, uy |-> 0],
     [shape |-> "none", quad |-> <<>>, view |-> NoView, ux |-> 0, uy |-> 0],
     [shape |-> "quad", quad |-> <<100, 200, 181, 200, 181, 231, 100, 231>>,
      view |-> NoView, ux |-> 0, uy |-> 99],
     [shape |-> "quad", quad |-> <<640, 360, 640, 360, 640, 360, 640, 360>>,
      view |-> [err |-> FALSE, w |-> 1280, h |-> 720], ux |-> 50, uy |-> 50],
     [shape |-> "quad", quad |-> <<181, 231, 100, 200, 181, 200, 100, 231>>,
      view |-> [err |-> FALSE, w |-> 0, h |-> 720], ux |-> 99, uy |-> 50]}

ClickIdle ==
    /\ ckPc = "idle"
    /\ ckIn = <<>> /\ ckTarget = <<>> /\ ckLog = <<>> /\ ckSlept = 0
    /\ ckRet = "none"

\* ClickHumanLike(p, el) up to the shape read: the scroll into view (its
\* error discarded), SleepGaussian(300, 150), el.Shape(): lines 237-241.
ClickBegin ==
    /\ ckPc = "idle"
    /\ \E in \in ClickInputs : ckIn' = in
    /\ \E res \in {"nil", "err"} :
         ckLog' = <<CkCall("ScrollIntoView", res), CkSleep("SleepGaussian", <<300, 150>>)>>
    /\ ckPc' = "shape"
    /\ UNCHANGED <<ckTarget, ckSlept, ckRet>>
    /\ UNCHANGED moveVars
    /\ UNCHANGED exceptClick

\* The geometry cannot be read: return el.Click("left", 1): lines 242-244.
ClickFallback ==
    /\ ckPc = "shape" /\ ckIn.shape \in {"err", "none"}
    /\ \E res \in {"nil", "err"} :
         /\ ckLog' = Append(ckLog, CkClick("left", 1, res))
         /\ ckRet' = FallbackResult(ckIn.shape, res)
    /\ ckPc' = "done"
    /\ UNCHANGED <<ckIn, ckTarget, ckSlept>>
    /\ UNCHANGED moveVars
    /\ UNCHANGED exceptClick

\* The target is chosen, the viewport read and MoveMouseHumanLike entered:
\* lines 247-286.
ClickAim ==
    /\ ckPc = "shape" /\ ckIn.shape = "quad"
    /\ ckTarget' = ClickTarget(ckIn.quad, ckIn.ux, ckIn.uy)
    /\ MoveEnter(ClickFrom(ckIn.view), ClickTarget(ckIn.quad, ckIn.ux, ckIn.uy))
    /\ ckPc' = "move"
    /\ UNCHANGED <<ckIn, ckLog, ckSlept, ckRet>>
    /\ UNCHANGED exceptClick

\* MoveMouseHumanLike has returned (its result discarded): SleepRandom(50,
\* 150), then the press at the target, its error discarded: lines 288-297.
ClickPress ==
    /\ ckPc = "move" /\ mvPc = "done"
    /\ \E ms \in SleepRandom(PreClickPause[1], PreClickPause[2]) : ckSlept' = ms
    /\ \E ok \in BOOLEAN :
         ckLog' = ckLog \o <<CkSleep("SleepRandom", PreClickPause),
                             CkMouse("mousePressed", ckTarget, ok, mvCount)>>
    /\ ckPc' = "pressed"
    /\ UNCHANGED <<ckIn, ckTarget, ckRet>>
    /\ UNCHANGED moveVars
    /\ UNCHANGED exceptClick

\* SleepRandom(30, 90), then the release at the target, its error
\* discarded, and return nil: lines 300-311.
ClickRelease ==
    /\ ckPc = "pressed"
    /\ \E ms \in SleepRandom(ReactionTime[1], ReactionTime[2]) : ckSlept' = ms
    /\ \E ok \in BOOLEAN :
         ckLog' = ckLog \o <<CkSleep("SleepRandom", ReactionTime),
                             CkMouse("mouseReleased", ckTarget, ok, mvCount)>>
    /\ ckRet' = "nil"
    /\ ckPc' = "done"
    /\ UNCHANGED <<ckIn, ckTarget>>
    /\ UNCHANGED moveVars
    /\ UNCHANGED exceptClick

\* ClickHumanLike has returned and its caller goes on.
ClickReturn ==
    /\ ckPc = "done"
    /\ ckPc' = "idle"
    /\ ckIn' = <<>> /\ ckTarget' = <<>> /\ ckLog' = <<>> /\ ckSlept' = 0
    /\ ckRet' = "none"
    /\ MoveReset
    /\ UNCHANGED exceptClick

ClickNext ==
    \/ ClickBegin
    \/ ClickFallback
    \/ ClickAim
    \/ MoveStep
    \/ MoveMicro
    \/ MoveNoMicro
    \/ ClickPress
    \/ ClickRelease
    \/ ClickReturn

\* The calls of the log of a kind among kinds.
CallsOf(kinds) == {i \in 1..Len(ckLog) : ckLog[i].kind \in kinds}

\* C9: on the humanized path every pointer move of the trajectory is
\* dispatched first, then comes a wait of 50-150 ms, then exactly one press,
\* then a wait of 30-90 ms, then exactly one release; press and release are
\* at the same target coordinates and no pointer move is dispatched between
\* or after them.
C9_ClickEventOrder ==
    /\ ckPc \in {"pressed", "done"} /\ ckIn.shape = "quad" =>
          /\ mvPc = "done" /\ mvCount >= 1
          /\ Len(ckLog) >= 4
          /\ ckLog[3] = CkSleep("SleepRandom", <<50, 150>>)
          /\ ckLog[4].kind = "mousePressed"
          /\ ckLog[4].at = ckTarget
          /\ ckLog[4].moves = mvCount
    /\ ckPc = "pressed" => Len(ckLog) = 4 /\ ckSlept \in 50..150
    /\ ckPc = "done" /\ ckIn.shape = "quad" =>
          /\ Len(ckLog) = 6
          /\ ckLog[5] = CkSleep("SleepRandom", <<30, 90>>)
          /\ ckSlept \in 30..90
          /\ ckLog[6].kind = "mouseReleased"
          /\ ckLog[6].at = ckLog[4].at
          /\ ckLog[6].moves = mvCount
          /\ CallsOf({"mousePressed"}) = {4}
          /\ CallsOf({"mouseReleased"}) = {6}
          /\ CallsOf({"click"}) = {}

\* A humanized click that has returned after a trajectory with its
\* micro-corrections and the longest reaction time.
C9_Witness ==
    /\ ckPc = "done" /\ ckIn.shape = "quad"
    /\ mvCount = mvSteps + 3
    /\ ckSlept = 90
    /\ ckTarget # ClickFrom(ckIn.view)

\* C10: when el.Shape() fails or has no quads, ClickHumanLike dispatches no
\* trajectory and no press or release, makes exactly one plain click
\* (el.Click("left", 1)) right after the shape read, and returns what that
\* click returned.
C10_FallbackClick ==
    ckPc # "idle" /\ ckIn.shape \in {"err", "none"} =>
        /\ mvPc = "idle" /\ mvCount = 0
        /\ CallsOf({"mousePressed", "mouseReleased"}) = {}
        /\ ckPc \in {"shape", "done"}
        /\ ckPc = "shape" => CallsOf({"click"}) = {}
        /\ ckPc = "done" =>
              /\ Len(ckLog) = 3
              /\ ckLog[3].kind = "click"
              /\ ckLog[3].button = "left" /\ ckLog[3].count = 1
              /\ ckRet = ckLog[3].res

\* The shape read failed and the click, made in the fallback, succeeded.
C10_Witness ==
    /\ ckPc = "done" /\ ckIn.shape = "err"
    /\ ckLog[3] = CkClick("left", 1, "nil")
    /\ ckRet = "nil"

\* C21 as stated: for every element bounding box, the click target chosen by
\* ClickHumanLike lies within the interior 30%-70% band of the box on both
\* axes (so always inside the element), and it is never the exact centre of
\* the box.
C21_TargetInBandOffCentre ==
    ckTarget # <<>> =>
        LET box == BoundingBox(ckIn.quad)
            w == box[3] - box[1]
            h == box[4] - box[2]
        IN  /\ 10 * box[1] + 3 * w <= 10 * ckTarget[1]
            /\ 10 * ckTarget[1] <= 10 * box[1] + 7 * w
            /\ 10 * box[2] + 3 * h <= 10 * ckTarget[2]
            /\ 10 * ckTarget[2] <= 10 * box[2] + 7 * h
            /\ ~(2 * ckTarget[1] = box[1] + box[3] /\ 2 * ckTarget[2] = box[2] + box[4])

----------------------------------------------------------------------------
(* Store: tables profiles and message_logs *)

\* How many distinct profile URLs the searches find; a URL is named by its
\* rank among the URLs in the order they are first stored.
NumURLs == 3
URLs == 1..NumURLs

\* The calendar days of the runs.
Days == {0, 1}

\* cfg.Limits of the runs: limits.max_connections_per_day,
\* limits.max_messages_per_day and limits.max_profiles_per_search, each
\* above 0 (validate).
Limits == [MaxConnectionsPerDay |-> 2, MaxMessagesPerDay |-> 1, MaxProfilesPerSearch |-> 2]

\* A column that is NULL.
Null == -1

\* A new row of profiles: the flags take their DEFAULT 0, the times are NULL.
\* info stands for name, headline, company and location: 0 empty, 1 filled.
NewProfile(url, info) ==
    [url |-> url, info |-> info,
     connection_sent |-> FALSE, connection_sent_at |-> Null,
     connection_accepted |-> FALSE,
     message_sent |-> FALSE, message_sent_at |-> Null]

\* The ids of the rows with a URL.
IdsOf(rows, url) == {i \in 1..Len(rows) : rows[i].url = url}

\* INSERT OR REPLACE: the row in conflict is deleted and a new one inserted.
UpsertProfileReplace(rows, url, info) ==
    LET kept == SelectSeq(rows, LAMBDA r : r.url # url)
    IN  Append(kept, NewProfile(url, info))

\* UpsertProfile: INSERT ... ON CONFLICT(linkedin_url) DO UPDATE SET name,
\* headline, company, location, updated_at.
UpsertProfile(rows, url, info) ==
    IF IdsOf(rows, url) = {}
    THEN Append(rows, NewProfile(url, info))
    ELSE [i \in 1..Len(rows) |->
            IF rows[i].url = url THEN [rows[i] EXCEPT !.info = info] ELSE rows[i]]

\* The ids a query selects, ORDER BY id LIMIT limit (a negative LIMIT is no
\* limit).
FirstIds(rows, Wanted(_), limit) ==
    LET all == SelectSeq([i \in 1..Len(rows) |-> i], LAMBDA i : Wanted(rows[i]))
    IN  IF limit < 0 THEN all ELSE SubSeq(all, 1, Min(limit, Len(all)))

\* GetProfilesNeedingConnection: WHERE connection_sent = 0 ORDER BY id LIMIT ?
GetProfilesNeedingConnection(rows, limit) ==
    FirstIds(rows, LAMBDA r : ~r.connection_sent, limit)

\* The follow-up selection with the filter on message_sent left out.
FollowUpWantedAgain(r) == r.connection_sent /\ r.connection_accepted

\* The WHERE clause of GetProfilesNeedingFollowUp: connection_sent = 1 AND
\* connection_accepted = 1 AND message_sent = 0.
FollowUpWanted(r) == r.connection_sent /\ r.connection_accepted /\ ~r.message_sent

\* GetProfilesNeedingFollowUp: ... ORDER BY id LIMIT ?
GetProfilesNeedingFollowUp(rows, limit) == FirstIds(rows, FollowUpWanted, limit)

\* A row of message_logs, less its id.
MessageLog(id, type, day) == [profile_id |-> id, type |-> type, created_at |-> day]

\* INSERT INTO message_logs, and SELECT COUNT(*) FROM message_logs WHERE ...
InsertLog(logs, row) == logs (+) SetToBag({row})
CountLogs(logs, Wanted(_)) ==
    BagCardinality([r \in {x \in DOMAIN logs : Wanted(x)} |-> logs[r]])

\* MarkConnectionSent, committed: the row is flagged and a connection_note logged.
MarkConnectionSent(rows, id, day) ==
    [rows EXCEPT ![id].connection_sent = TRUE, ![id].connection_sent_at = day]

\* MarkMessageSent, committed: the row is flagged and a follow_up logged.
MarkMessageSent(rows, id, day) ==
    [rows EXCEPT ![id].message_sent = TRUE, ![id].message_sent_at = day]

\* MarkAccepted.
MarkAccepted(rows, id) == [rows EXCEPT ![id].connection_accepted = TRUE]

\* CountActionsToday, the query succeeding: the profiles flagged
\* connection-sent today, or the message_logs of a type created today.
CountActionsToday(rows, logs, day, table, typeFilter) ==
    IF table = "profiles"
    THEN Cardinality({i \in 1..Len(rows) :
                        rows[i].connection_sent /\ rows[i].connection_sent_at = day})
    ELSE CountLogs(logs, LAMBDA r : r.type = typeFilter /\ r.created_at = day)

\* What a call of CountActionsToday returns: (c, nil), or (0, err) when the
\* query fails.
CountResults(rows, logs, day, table, typeFilter) ==
    {[n |-> CountActionsToday(rows, logs, day, table, typeFilter), err |-> FALSE],
     [n |-> 0, err |-> TRUE]}

StoreEmpty ==
    /\ stProfiles = <<>>
    /\ stLogs = EmptyBag
    /\ stDay = 0
    /\ stCall = <<>>

----------------------------------------------------------------------------
(* Connection requests: Service.SendConnections, sendOne *)

\* The --limit values of a run.
LimitArgs == {0, 1, NumURLs}

\* The result of a run: (n, err).
RunResult(n, err) == [n |-> n, err |-> err]

ConnIdle ==
    /\ cnPc = "idle"
    /\ cnToSend = 0 /\ cnProfiles = <<>> /\ cnSent = 0
    /\ cnRet = <<>>

\* toSend: limit, replaced by the daily cap when not positive, and cut to
\* what the count leaves of the cap.
ToSend(limit, cap, today) ==
    LET lim == IF limit <= 0 THEN cap ELSE limit
    IN  IF lim > cap - today THEN cap - today ELSE lim

\* SendConnections(ctx, limit) up to its loop: the count of today (its error
\* looked at only to return early), toSend, the profiles selected, the
\* page: lines 29-64 of connection.go.
SendConnectionsBegin ==
    /\ cnPc = "idle" /\ fuPc = "idle"
    /\ \E limit \in LimitArgs,
          count \in CountResults(stProfiles, stLogs, stDay, "profiles", ""),
          fails \in BOOLEAN :
         IF ~count.err /\ count.n >= Limits.MaxConnectionsPerDay
         THEN /\ cnRet' = RunResult(0, FALSE)
              /\ cnPc' = "done"
              /\ UNCHANGED <<cnToSend, cnProfiles>>
         ELSE LET toSend == ToSend(limit, Limits.MaxConnectionsPerDay, count.n)
                  profiles == GetProfilesNeedingConnection(stProfiles, toSend)
              IN  /\ cnToSend' = toSend
                  /\ IF fails
                     THEN /\ cnRet' = RunResult(0, TRUE)
                          /\ cnPc' = "done"
                          /\ cnProfiles' = <<>>
                     ELSE IF profiles = <<>>
                     THEN /\ cnRet' = RunResult(0, FALSE)
                          /\ cnPc' = "done"
                          /\ cnProfiles' = <<>>
                     ELSE /\ cnProfiles' = profiles
                          /\ cnPc' = "loop"
                          /\ cnRet' = cnRet
    /\ UNCHANGED <<cnSent, storeVars>>
    /\ UNCHANGED <<followVars, exceptOutreach>>

\* sendOne fails before MarkConnectionSent has committed (or in it): the
\* profile is left as it was and the loop continues: lines 66-71, 80-222.
SendOneFails ==
    /\ cnPc = "loop" /\ cnProfiles # <<>>
    /\ cnProfiles' = Tail(cnProfiles)
    /\ UNCHANGED <<cnPc, cnToSend, cnSent, cnRet, storeVars>>
    /\ UNCHANGED <<followVars, exceptOutreach>>

\* sendOne succeeds: the request is sent, MarkConnectionSent commits, and
\* sent++: lines 66-74, 80-225.
SendOne ==
    /\ cnPc = "loop" /\ cnProfiles # <<>>
    /\ stProfiles' = MarkConnectionSent(stProfiles, Head(cnProfiles), stDay)
    /\ stLogs' = InsertLog(stLogs, MessageLog(Head(cnProfiles), "connection_note", stDay))
    /\ cnProfiles' = Tail(cnProfiles)
    /\ cnSent' = cnSent + 1
    /\ UNCHANGED <<cnPc, cnToSend, cnRet, stDay, stCall>>
    /\ UNCHANGED <<followVars, exceptOutreach>>

\* The loop is over: return sent, nil: line 77.
SendConnectionsFinish ==
    /\ cnPc = "loop" /\ cnProfiles = <<>>
    /\ cnRet' = RunResult(cnSent, FALSE)
    /\ cnPc' = "done"
    /\ UNCHANGED <<cnToSend, cnProfiles, cnSent, storeVars>>
    /\ UNCHANGED <<followVars, exceptOutreach>>

\* The command has ended; the next one starts afresh.
SendConnectionsReturn ==
    /\ cnPc = "done"
    /\ cnPc' = "idle"
    /\ cnToSend' = 0 /\ cnProfiles' = <<>> /\ cnSent' = 0
    /\ cnRet' = <<>>
    /\ UNCHANGED storeVars
    /\ UNCHANGED <<followVars, exceptOutreach>>

\* The search stores a profile it found, one stored before or the next new
\* one: UpsertProfile of a row with the URL alone.
StoreProfile ==
    /\ \E url \in URLs :
         /\ url <= Len(stProfiles) + 1
         /\ stProfiles' = UpsertProfile(stProfiles, url, 0)
    /\ UNCHANGED <<stLogs, stDay, stCall, connVars, followVars>>
    /\ UNCHANGED <<followVars, exceptOutreach>>

\* Midnight.
DayPasses ==
    /\ stDay + 1 \in Days
    /\ stDay' = stDay + 1
    /\ UNCHANGED <<stProfiles, stLogs, stCall, connVars, followVars>>
    /\ UNCHANGED <<followVars, exceptOutreach>>

ConnectNext ==
    \/ StoreProfile
    \/ DayPasses
    \/ SendConnectionsBegin
    \/ SendOneFails
    \/ SendOne
    \/ SendConnectionsFinish
    \/ SendConnectionsReturn

\* The profiles marked connection-sent on a day.
SentOn(day) ==
    {i \in 1..Len(stProfiles) :
        stProfiles[i].connection_sent /\ stProfiles[i].connection_sent_at = day}

\* C12 as stated: on no day are more than max_connections_per_day profiles
\* marked connection-sent, and a run takes on at most the profiles the cap
\* leaves, none once the cap is reached.
C12_DailyConnectionCap ==
    /\ \A day \in Days : Cardinality(SentOn(day)) <= Limits.MaxConnectionsPerDay
    /\ cnPc = "loop" =>
          Len(cnProfiles) + Cardinality(SentOn(stDay)) <= Limits.MaxConnectionsPerDay

----------------------------------------------------------------------------
(* One attempt step by step: Service.sendOne, Store.MarkConnectionSent *)

SendOneIdle ==
    /\ soPc = "idle" /\ soId = 0 /\ soClicked = FALSE
    /\ soBefore = <<>> /\ soTx = <<>> /\ soRet = "none"

\* What an attempt can change of the store: the flags of its profile and
\* the message log.
StatusOf(rows, logs, id) ==
    [connection_sent |-> rows[id].connection_sent,
     connection_accepted |-> rows[id].connection_accepted,
     message_sent |-> rows[id].message_sent,
     logs |-> logs]

\* The store as the open transaction sees it: the statements it has
\* executed, applied to the rows and logs.
TxApply(store, tx) ==
    [rows |-> IF "update" \in tx.done
              THEN MarkConnectionSent(store.rows, tx.id, tx.now) ELSE store.rows,
     logs |-> IF "insert" \in tx.done
              THEN InsertLog(store.logs, MessageLog(tx.id, "connection_note", tx.now))
              ELSE store.logs]

\* The statements of a transaction taking effect as they are executed.
RollbackKeeps(store, tx) == TxApply(store, tx)

\* The deferred tx.Rollback() of a transaction that did not commit: the
\* store is left as it was.
Rollback(store, tx) == store

\* The loop of SendConnections calls sendOne for the next profile:
\* connection.go lines 68-70.
SendOneEnter ==
    /\ cnPc = "loop" /\ cnProfiles # <<>> /\ soPc = "idle"
    /\ soPc' = "page"
    /\ soId' = Head(cnProfiles)
    /\ soBefore' = StatusOf(stProfiles, stLogs, Head(cnProfiles))
    /\ UNCHANGED <<soClicked, soTx, soRet>>
    /\ UNCHANGED <<storeVars, connVars, followVars, searchVars, exceptSendOne>>

\* sendOne returns an error before the Send button was clicked (the
\* navigation, the Connect button, the note or the Send button): lines
\* 80-217.
SendOnePageFails ==
    /\ soPc = "page"
    /\ soRet' = "err"
    /\ soPc' = "back"
    /\ UNCHANGED <<soId, soClicked, soBefore, soTx>>
    /\ UNCHANGED <<storeVars, connVars, followVars, searchVars, exceptSendOne>>

\* ClickHumanLike(p, sendBtn) returns nil: lines 209-217.
SendOneClickSend ==
    /\ soPc = "page"
    /\ soClicked' = TRUE
    /\ soPc' = "clicked"
    /\ UNCHANGED <<soId, soBefore, soTx, soRet>>
    /\ UNCHANGED <<storeVars, connVars, followVars, searchVars, exceptSendOne>>

\* MarkConnectionSent: now := time.Now() and BeginTx: logging.go lines
\* 133-137.
MarkBeginTx ==
    /\ soPc = "clicked"
    /\ soTx' = [id |-> soId, now |-> stDay, done |-> {}]
    /\ soPc' = "update"
    /\ UNCHANGED <<soId, soClicked, soBefore, soRet>>
    /\ UNCHANGED <<storeVars, connVars, followVars, searchVars, exceptSendOne>>

\* BeginTx fails; sendOne returns the error: logging.go lines 134-137,
\* connection.go lines 220-222.
MarkBeginTxFails ==
    /\ soPc = "clicked"
    /\ soRet' = "err"
    /\ soPc' = "back"
    /\ UNCHANGED <<soId, soClicked, soBefore, soTx>>
    /\ UNCHANGED <<storeVars, connVars, followVars, searchVars, exceptSendOne>>

\* UPDATE profiles SET connection_sent = 1 ..., in the transaction: line 139.
MarkUpdate ==
    /\ soPc = "update"
    /\ soTx' = [soTx EXCEPT !.done = @ \cup {"update"}]
    /\ soPc' = "insert"
    /\ UNCHANGED <<soId, soClicked, soBefore, soRet>>
    /\ UNCHANGED <<storeVars, connVars, followVars, searchVars, exceptSendOne>>

\* INSERT INTO message_logs ..., in the transaction: line 142.
MarkInsert ==
    /\ soPc = "insert"
    /\ soTx' = [soTx EXCEPT !.done = @ \cup {"insert"}]
    /\ soPc' = "commit"
    /\ UNCHANGED <<soId, soClicked, soBefore, soRet>>
    /\ UNCHANGED <<storeVars, connVars, followVars, searchVars, exceptSendOne>>

\* tx.Commit() succeeds and sendOne returns nil: logging.go line 145,
\* connection.go lines 220-225.
MarkCommit ==
    /\ soPc = "commit"
    /\ LET now == TxApply([rows |-> stProfiles, logs |-> stLogs], soTx)
       IN  /\ stProfiles' = now.rows
           /\ stLogs' = now.logs
    /\ soTx' = <<>>
    /\ soRet' = "nil"
    /\ soPc' = "back"
    /\ UNCHANGED <<soId, soClicked, soBefore>>
    /\ UNCHANGED <<stDay, stCall, connVars, followVars, searchVars, exceptSendOne>>

\* A statement of the transaction or its commit fails: the deferred
\* Rollback, and sendOne returns the error: logging.go lines 138-145.
MarkFails ==
    /\ soPc \in {"update", "insert", "commit"}
    /\ LET kept == Rollback([rows |-> stProfiles, logs |-> stLogs], soTx)
       IN  /\ stProfiles' = kept.rows
           /\ stLogs' = kept.logs
    /\ soTx' = <<>>
    /\ soRet' = "err"
    /\ soPc' = "back"
    /\ UNCHANGED <<soId, soClicked, soBefore>>
    /\ UNCHANGED <<stDay, stCall, connVars, followVars, searchVars, exceptSendOne>>

\* Back in the loop: `continue` on an error, sent++ otherwise:
\* connection.go lines 70-75.
SendOneLeave ==
    /\ soPc = "back"
    /\ cnProfiles' = Tail(cnProfiles)
    /\ cnSent' = IF soRet = "nil" THEN cnSent + 1 ELSE cnSent
    /\ soPc' = "idle" /\ soId' = 0 /\ soClicked' = FALSE
    /\ soBefore' = <<>> /\ soTx' = <<>> /\ soRet' = "none"
    /\ UNCHANGED <<cnPc, cnToSend, cnRet>>
    /\ UNCHANGED <<storeVars, followVars, searchVars, exceptSendOne>>

\* SendConnections with sendOne taken step by step.
SendOneNext ==
    \/ StoreProfile
    \/ DayPasses
    \/ SendConnectionsBegin
    \/ SendOneEnter
    \/ SendOnePageFails
    \/ SendOneClickSend
    \/ MarkBeginTx
    \/ MarkBeginTxFails
    \/ MarkUpdate
    \/ MarkInsert
    \/ MarkCommit
    \/ MarkFails
    \/ SendOneLeave
    \/ SendConnectionsFinish
    \/ SendConnectionsReturn

\* How many connection_note logs a profile has.
ConnectionNotesTo(id) ==
    CountLogs(stLogs, LAMBDA r : r.type = "connection_note" /\ r.profile_id = id)

\* C29: sendOne marks a profile connection-sent only after the Send click of
\* that attempt has been issued; the flag and the single connection_note log
\* are applied together or not at all; an attempt that returns an error
\* leaves the profile's flags and the message log unchanged and is not
\* counted in the number sent; and a profile that is marked is never
\* selected by a later run of SendConnections.
C29_MarkedAfterSendAtomically ==
    /\ [](/\ \A id \in 1..Len(stProfiles) :
               /\ ConnectionNotesTo(id) <= 1
               /\ stProfiles[id].connection_sent <=> ConnectionNotesTo(id) = 1
          /\ (soPc = "back" /\ soRet = "err") =>
                StatusOf(stProfiles, stLogs, soId) = soBefore
          /\ \A k \in 1..Len(cnProfiles) :
                \/ k = 1 /\ soPc = "back" /\ soRet = "nil"
                \/ ~stProfiles[cnProfiles[k]].connection_sent)
    /\ [][/\ \A id \in 1..Len(stProfiles) :
                (~stProfiles[id].connection_sent /\ stProfiles'[id].connection_sent)
                    => (soClicked /\ soId = id)
          /\ stLogs' # stLogs => soClicked
          /\ (soPc = "back" /\ soRet = "err") => cnSent' = cnSent]_vars

\* C29 witness: in a later run of SendConnections, with a profile marked by
\* an earlier run, an attempt whose Send click was issued has returned an
\* error from MarkConnectionSent.
C29_Witness ==
    /\ soPc = "back" /\ soRet = "err" /\ soClicked
    /\ \E id \in 1..Len(stProfiles) :
          /\ stProfiles[id].connection_sent
          /\ id # soId
    /\ ~stProfiles[soId].connection_sent

----------------------------------------------------------------------------
(* Follow-up messages: messaging Service.SendFollowUps, detectAcceptances *)

FollowIdle ==
    /\ fuPc = "idle"
    /\ fuToSend = 0 /\ fuProfiles = <<>> /\ fuSent = 0
    /\ fuRet = <<>>

\* The acceptance candidates with the filter on connection_sent left out.
GetPendingAcceptanceChecksUnsent(rows) ==
    {i \in 1..Len(rows) : ~rows[i].connection_accepted}

\* GetPendingAcceptanceChecks: WHERE connection_sent = 1 AND
\* connection_accepted = 0.
GetPendingAcceptanceChecks(rows) ==
    {i \in 1..Len(rows) : rows[i].connection_sent /\ ~rows[i].connection_accepted}

\* detectAcceptances: the candidates whose page shows a Message button are
\* marked accepted (the result of MarkAccepted discarded).
DetectAcceptances(rows, accepted) ==
    [i \in 1..Len(rows) |-> IF i \in accepted THEN MarkAccepted(rows, i)[i] ELSE rows[i]]

\* SendFollowUps(ctx, limit) up to its loop: the count of today (its error
\* looked at only to return early), toSend, detectAcceptances, the
\* profiles selected, the page: lines 528-555 of models.go.
SendFollowUpsBegin ==
    /\ fuPc = "idle" /\ cnPc = "idle"
    /\ \E limit \in LimitArgs,
          count \in CountResults(stProfiles, stLogs, stDay, "message_logs", "follow_up"),
          accepted \in SUBSET GetPendingAcceptanceChecks(stProfiles),
          fails \in BOOLEAN :
         IF ~count.err /\ count.n >= Limits.MaxMessagesPerDay
         THEN /\ fuRet' = RunResult(0, TRUE)
              /\ fuPc' = "done"
              /\ UNCHANGED <<fuToSend, fuProfiles, stProfiles>>
         ELSE LET toSend == ToSend(limit, Limits.MaxMessagesPerDay, count.n)
                  rows == DetectAcceptances(stProfiles, accepted)
                  profiles == GetProfilesNeedingFollowUp(rows, toSend)
              IN  /\ fuToSend' = toSend
                  /\ stProfiles' = rows
                  /\ IF fails
                     THEN /\ fuRet' = RunResult(0, TRUE)
                          /\ fuPc' = "done"
                          /\ fuProfiles' = <<>>
                     ELSE /\ fuProfiles' = profiles
                          /\ fuPc' = "loop"
                          /\ fuRet' = fuRet
    /\ UNCHANGED <<fuSent, stLogs, stDay, stCall, connVars>>
    /\ UNCHANGED exceptOutreach

\* messageOne fails before MarkMessageSent has committed (or in it): the
\* profile is left as it was and the loop continues: lines 557-561.
MessageOneFails ==
    /\ fuPc = "loop" /\ fuProfiles # <<>>
    /\ fuProfiles' = Tail(fuProfiles)
    /\ UNCHANGED <<fuPc, fuToSend, fuSent, fuRet, storeVars, connVars>>
    /\ UNCHANGED exceptOutreach

\* messageOne succeeds: the message is sent, MarkMessageSent commits, and
\* sent++: lines 557-563, 599-714.
MessageOne ==
    /\ fuPc = "loop" /\ fuProfiles # <<>>
    /\ stProfiles' = MarkMessageSent(stProfiles, Head(fuProfiles), stDay)
    /\ stLogs' = InsertLog(stLogs, MessageLog(Head(fuProfiles), "follow_up", stDay))
    /\ fuProfiles' = Tail(fuProfiles)
    /\ fuSent' = fuSent + 1
    /\ UNCHANGED <<fuPc, fuToSend, fuRet, stDay, stCall, connVars>>
    /\ UNCHANGED exceptOutreach

\* The loop is over: return sent, nil: line 565.
SendFollowUpsFinish ==
    /\ fuPc = "loop" /\ fuProfiles = <<>>
    /\ fuRet' = RunResult(fuSent, FALSE)
    /\ fuPc' = "done"
    /\ UNCHANGED <<fuToSend, fuProfiles, fuSent, storeVars, connVars>>
    /\ UNCHANGED exceptOutreach

\* The command has ended; the next one starts afresh.
SendFollowUpsReturn ==
    /\ fuPc = "done"
    /\ fuPc' = "idle"
    /\ fuToSend' = 0 /\ fuProfiles' = <<>> /\ fuSent' = 0
    /\ fuRet' = <<>>
    /\ UNCHANGED <<storeVars, connVars>>
    /\ UNCHANGED exceptOutreach

\* The commands of the outreach, run one after the other.
FollowUpNext ==
    \/ StoreProfile
    \/ DayPasses
    \/ SendConnectionsBegin
    \/ SendOneFails
    \/ SendOne
    \/ SendConnectionsFinish
    \/ SendConnectionsReturn
    \/ SendFollowUpsBegin
    \/ MessageOneFails
    \/ MessageOne
    \/ SendFollowUpsFinish
    \/ SendFollowUpsReturn

\* How many follow_up logs were created on a day, and how many for a profile.
FollowUpsOn(day) ==
    CountLogs(stLogs, LAMBDA r : r.type = "follow_up" /\ r.created_at = day)
FollowUpsTo(id) ==
    CountLogs(stLogs, LAMBDA r : r.type = "follow_up" /\ r.profile_id = id)

\* C13 as stated: on no day are more than max_messages_per_day follow_up
\* logs created, and a run takes on at most the profiles the cap leaves.
C13_DailyMessageCap ==
    /\ \A day \in Days : FollowUpsOn(day) <= Limits.MaxMessagesPerDay
    /\ fuPc = "loop" =>
          Len(fuProfiles) + FollowUpsOn(stDay) <= Limits.MaxMessagesPerDay

\* C17: a follow-up is attempted only for a profile that is connection-sent,
\* connection-accepted and not message-sent when selected, and no profile is
\* marked message-sent, with its follow_up log, more than once.
C17_FollowUpOnce ==
    /\ \A k \in 1..Len(fuProfiles) :
          /\ FollowUpWanted(stProfiles[fuProfiles[k]])
          /\ \A j \in 1..Len(fuProfiles) : fuProfiles[j] = fuProfiles[k] => j = k
    /\ \A id \in 1..Len(stProfiles) :
          /\ FollowUpsTo(id) <= 1
          /\ stProfiles[id].message_sent <=> FollowUpsTo(id) = 1
          /\ stProfiles[id].message_sent =>
                stProfiles[id].connection_sent /\ stProfiles[id].connection_accepted

\* A second run of SendFollowUps finds a profile it has already messaged
\* and one it has not, and takes on the latter only.
C17_Witness ==
    /\ fuPc = "loop"
    /\ \E id \in 1..Len(stProfiles) : stProfiles[id].message_sent
    /\ fuProfiles # <<>>

\* The status flags of a row.
StatusFlags == {"connection_sent", "connection_accepted", "message_sent"}

\* C28: in every state reached through the workflows (profiles stored by the
\* search, SendConnections, acceptance detection, SendFollowUps) each stored
\* profile satisfies message_sent => connection_accepted => connection_sent,
\* and no status flag of a row ever goes back from true to false.
C28_FlagsOrderedAndMonotone ==
    /\ [](\A id \in 1..Len(stProfiles) :
            /\ stProfiles[id].message_sent => stProfiles[id].connection_accepted
            /\ stProfiles[id].connection_accepted => stProfiles[id].connection_sent)
    /\ [][/\ Len(stProfiles') >= Len(stProfiles)
          /\ \A id \in 1..Len(stProfiles), f \in StatusFlags :
                /\ stProfiles'[id].url = stProfiles[id].url
                /\ stProfiles[id][f] => stProfiles'[id][f]]_vars

\* C28 witness: the workflows have taken one profile through all three
\* flags, a second is connection-sent and not yet accepted, and a third,
\* found by a later search, has no flag set.
C28_Witness ==
    /\ fuPc = "done"
    /\ \E a, b, c \in 1..Len(stProfiles) :
          /\ stProfiles[a].message_sent
          /\ stProfiles[b].connection_sent /\ ~stProfiles[b].connection_accepted
          /\ ~stProfiles[c].connection_sent /\ c > a

----------------------------------------------------------------------------
(* The store on its own: the methods of Store called one after the other *)

\* A call of a method of the store.
StoreCall(fn, arg) == [fn |-> fn, arg |-> arg]

\* The rest of the system does not move while the store is called.
StoreAlone == UNCHANGED <<connVars, followVars, exceptOutreach>>

\* UpsertProfile(ctx, p): by the search (the URL alone, info 0) or by
\* extractProfileInfo (name, headline, company filled in, info 1).
UpsertProfileCall ==
    /\ \E url \in URLs, info \in {0, 1} :
         /\ url <= Len(stProfiles) + 1
         /\ stProfiles' = UpsertProfile(stProfiles, url, info)
         /\ stCall' = StoreCall("UpsertProfile", url)
    /\ UNCHANGED <<stLogs, stDay>>
    /\ StoreAlone

\* MarkConnectionSent(ctx, id, note), committed.
MarkConnectionSentCall ==
    /\ \E id \in 1..Len(stProfiles) :
         /\ ~stProfiles[id].connection_sent
         /\ stProfiles' = MarkConnectionSent(stProfiles, id, stDay)
         /\ stLogs' = InsertLog(stLogs, MessageLog(id, "connection_note", stDay))
         /\ stCall' = StoreCall("MarkConnectionSent", id)
    /\ UNCHANGED stDay
    /\ StoreAlone

\* MarkAccepted(ctx, id).
MarkAcceptedCall ==
    /\ \E id \in GetPendingAcceptanceChecks(stProfiles) :
         /\ stProfiles' = MarkAccepted(stProfiles, id)
         /\ stCall' = StoreCall("MarkAccepted", id)
    /\ UNCHANGED <<stLogs, stDay>>
    /\ StoreAlone

\* MarkMessageSent(ctx, id, content), committed.
MarkMessageSentCall ==
    /\ \E id \in 1..Len(stProfiles) :
         /\ FollowUpWanted(stProfiles[id])
         /\ stProfiles' = MarkMessageSent(stProfiles, id, stDay)
         /\ stLogs' = InsertLog(stLogs, MessageLog(id, "follow_up", stDay))
         /\ stCall' = StoreCall("MarkMessageSent", id)
    /\ UNCHANGED stDay
    /\ StoreAlone

StoreNext ==
    \/ UpsertProfileCall
    \/ MarkConnectionSentCall
    \/ MarkAcceptedCall
    \/ MarkMessageSentCall

\* The flags of a row of profiles.
Flags(r) ==
    <<r.connection_sent, r.connection_sent_at, r.connection_accepted,
      r.message_sent, r.message_sent_at>>

\* C14: UpsertProfile is idempotent on the URL: after an upsert there is
\* exactly one row for each URL stored, and a row stored before keeps its id
\* and its connection_sent, connection_accepted and message_sent flags.
C14_UpsertIdempotent ==
    [][UpsertProfileCall =>
          /\ \A i, j \in 1..Len(stProfiles') :
                stProfiles'[i].url = stProfiles'[j].url => i = j
          /\ IdsOf(stProfiles', stCall'.arg) # {}
          /\ \A i \in 1..Len(stProfiles) :
                /\ i <= Len(stProfiles')
                /\ stProfiles'[i].url = stProfiles[i].url
                /\ Flags(stProfiles'[i]) = Flags(stProfiles[i])]_vars

\* The last call has upserted, with its fields filled, the first of two
\* profiles, one that is connection-sent, accepted and message-sent.
C14_Witness ==
    /\ stCall = StoreCall("UpsertProfile", 1)
    /\ Len(stProfiles) = 2
    /\ stProfiles[1].info = 1
    /\ stProfiles[1].connection_sent /\ stProfiles[1].connection_accepted
    /\ stProfiles[1].message_sent

----------------------------------------------------------------------------
(* The command run-all: runAll *)

\* The phases of runAll in the order of its code, and the environment
\* variable that gates each ("": none, the login is not gated).
Phases == <<"login", "search", "send-connections", "send-messages">>
PhaseVar == <<"", "RUN_SEARCH", "RUN_CONNECT", "RUN_MESSAGE">>
EnvVars == {"RUN_SEARCH", "RUN_CONNECT", "RUN_MESSAGE"}

\* What os.LookupEnv answers for a variable: (value, ok).
Lookups == {[value |-> "", ok |-> FALSE], [value |-> "", ok |-> TRUE], [value |-> "1", ok |-> TRUE]}

\* The environments of a run.
Environments == [EnvVars -> Lookups]

\* The gate taken from the value: os.Getenv(...) != "".
PhaseWantedNonEmpty(k, env) == IF PhaseVar[k] = "" THEN TRUE ELSE env[PhaseVar[k]].value # ""

\* if _, ok := os.LookupEnv(...); ok: phase k is run when its variable is
\* set, whatever its value; runLogin is called unconditionally.
PhaseWanted(k, env) == IF PhaseVar[k] = "" THEN TRUE ELSE env[PhaseVar[k]].ok

\* A phase started and how it ended: "running", "nil" or "err".
PhaseRun(k, result) == [phase |-> k, result |-> result]

RunAllIdle ==
    /\ raPc = "idle"
    /\ raEnv = <<>> /\ raPhase = 0 /\ raLog = <<>>
    /\ raRet = "none"

\* runAll(ctx, cfg, st) is called in an environment: line 201.
RunAllBegin ==
    /\ raPc = "idle"
    /\ \E env \in Environments : raEnv' = env
    /\ raPhase' = 1
    /\ raPc' = "next"
    /\ UNCHANGED <<raLog, raRet>>
    /\ UNCHANGED exceptRunAll

\* The phase runAll has come to is wanted and is called: lines 202, 206,
\* 211, 216.
RunAllPhaseStarts ==
    /\ raPc = "next" /\ raPhase <= Len(Phases)
    /\ PhaseWanted(raPhase, raEnv)
    /\ raLog' = Append(raLog, PhaseRun(raPhase, "running"))
    /\ raPc' = "running"
    /\ UNCHANGED <<raEnv, raPhase, raRet>>
    /\ UNCHANGED exceptRunAll

\* Its variable is not set: the phase is passed over: lines 205, 210, 215.
RunAllPhaseSkipped ==
    /\ raPc = "next" /\ raPhase <= Len(Phases)
    /\ ~PhaseWanted(raPhase, raEnv)
    /\ raPhase' = raPhase + 1
    /\ UNCHANGED <<raPc, raEnv, raLog, raRet>>
    /\ UNCHANGED exceptRunAll

\* The phase returns nil and runAll goes on to the next.
RunAllPhaseDone ==
    /\ raPc = "running"
    /\ raLog' = [raLog EXCEPT ![Len(raLog)].result = "nil"]
    /\ raPhase' = raPhase + 1
    /\ raPc' = "next"
    /\ UNCHANGED <<raEnv, raRet>>
    /\ UNCHANGED exceptRunAll

\* The phase returns an error: return err: lines 203, 207, 212, 217.
RunAllPhaseFails ==
    /\ raPc = "running"
    /\ raLog' = [raLog EXCEPT ![Len(raLog)].result = "err"]
    /\ raRet' = "err"
    /\ raPc' = "done"
    /\ UNCHANGED <<raEnv, raPhase>>
    /\ UNCHANGED exceptRunAll

\* Past the last phase: return nil: line 220.
RunAllFinish ==
    /\ raPc = "next" /\ raPhase > Len(Phases)
    /\ raRet' = "nil"
    /\ raPc' = "done"
    /\ UNCHANGED <<raEnv, raPhase, raLog>>
    /\ UNCHANGED exceptRunAll

\* The process exits.
RunAllReturn ==
    /\ raPc = "done"
    /\ raPc' = "idle"
    /\ raEnv' = <<>> /\ raPhase' = 0 /\ raLog' = <<>>
    /\ raRet' = "none"
    /\ UNCHANGED exceptRunAll

RunAllNext ==
    \/ RunAllBegin
    \/ RunAllPhaseStarts
    \/ RunAllPhaseSkipped
    \/ RunAllPhaseDone
    \/ RunAllPhaseFails
    \/ RunAllFinish
    \/ RunAllReturn

\* The phases that are to run in an environment, in the fixed order.
PhasesDue(env) == SelectSeq(<<1, 2, 3, 4>>, LAMBDA k : IF k = 1 THEN TRUE ELSE env[PhaseVar[k]].ok)

\* C15: run-all starts its phases in the order login, search,
\* send-connections, send-messages; a phase whose variable is unset is
\* skipped, login never is; the first phase that fails ends the run and no
\* later phase is started.
C15_RunAllOrder ==
    raPc # "idle" =>
    LET due == PhasesDue(raEnv)
    IN  /\ Len(raLog) <= Len(due)
        /\ \A n \in 1..Len(raLog) :
              /\ raLog[n].phase = due[n]
              /\ n < Len(raLog) => raLog[n].result = "nil"
        /\ raLog # <<>> => Phases[raLog[1].phase] = "login"
        /\ raPc = "done" /\ raRet = "nil" =>
              Len(raLog) = Len(due) /\ raLog[Len(raLog)].result = "nil"
        /\ raPc = "done" /\ raRet = "err" => raLog[Len(raLog)].result = "err"
        /\ raPc = "done" => raRet \in {"nil", "err"}

\* With RUN_SEARCH unset and the other two set, RUN_CONNECT to the empty
\* string, the search was skipped and the run ended when send-connections
\* failed, send-messages never started.
C15_Witness ==
    /\ raPc = "done" /\ raRet = "err"
    /\ ~raEnv["RUN_SEARCH"].ok
    /\ raEnv["RUN_CONNECT"] = [value |-> "", ok |-> TRUE]
    /\ raEnv["RUN_MESSAGE"].ok
    /\ raLog = <<PhaseRun(1, "nil"), PhaseRun(3, "err")>>

----------------------------------------------------------------------------
(* Configuration: Config.Stealth, defaultConfig, Load *)

\* The enable flags of Config.Stealth, one for each behaviour category.
StealthFlags ==
    {"EnableHumanMouse", "EnableRandomScroll", "EnableTypeTypos",
     "EnableHoverWander", "EnableBreaks"}

\* defaultConfig(): every category enabled.
DefaultStealth == [f \in StealthFlags |-> TRUE]

\* The flags after yaml.Unmarshal over the defaults: the defaults, typo
\* injection alone switched off, every category switched off.
StealthConfigs ==
    {DefaultStealth,
     [DefaultStealth EXCEPT !["EnableTypeTypos"] = FALSE],
     [f \in StealthFlags |-> FALSE]}

ConfigDefault == cfgStealth = DefaultStealth

\* config.Load(path) at the start of main, before any primitive is called.
LoadConfig ==
    /\ tyPc = "idle"
    /\ \E cfg \in StealthConfigs : cfgStealth' = cfg
    /\ UNCHANGED exceptConfig

\* Typing under a loaded configuration. TypeHumanLike(el, text) takes no
\* configuration and reads none: its typo branch is gated by the draw and
\* the index alone.
TypeConfiguredNext ==
    \/ LoadConfig
    \/ TypeBegin
    \/ TypoInsert
    \/ TypoBackspace
    \/ TypeChar
    \/ TypeRhythm
    \/ TypeFinish
    \/ TypeReturn

\* C16 as stated: each behaviour category is controlled by its enable flag:
\* with typo injection disabled (enable_type_typos = false) TypeHumanLike
\* emits no wrong-character insert and no backspace.
C16_DisabledTyposEmitNone ==
    ~cfgStealth["EnableTypeTypos"] =>
        /\ tyPc \notin {"typo1", "typo2"}
        /\ \A k \in 1 .. Len(tyEvents) : tyEvents[k].kind # "backspace"
        /\ ~tyTypos

----------------------------------------------------------------------------
(* Session: Auth.EnsureLoggedIn, login, validateSession, loadCookies, saveCookies *)

\* A step of EnsureLoggedIn and whether it succeeded.
AuthStep(step, ok) == [step |-> step, ok |-> ok]

\* The credentials in the environment: whether each variable is non-empty.
Credentials == [email : BOOLEAN, pass : BOOLEAN]

AuthIdle ==
    /\ auPc = "idle"
    /\ auEnv = [email |-> FALSE, pass |-> FALSE]
    /\ auFile = "none"
    /\ auLog = <<>>
    /\ auRet = "none" /\ auErr = "none"

\* EnsureLoggedIn(ctx) is called in an environment; the cookie file is what
\* earlier calls left.
EnsureLoggedInBegin ==
    /\ auPc = "idle"
    /\ \E env \in Credentials : auEnv' = env
    /\ auLog' = <<>>
    /\ auRet' = "none" /\ auErr' = "none"
    /\ auPc' = "page"
    /\ UNCHANGED auFile
    /\ UNCHANGED exceptAuth

\* a.br.NewPage(ctx) fails: return err: lines 164-167.
NewPageFails ==
    /\ auPc = "page"
    /\ auLog' = Append(auLog, AuthStep("newPage", FALSE))
    /\ auRet' = "err" /\ auErr' = "new page"
    /\ auPc' = "done"
    /\ UNCHANGED <<auEnv, auFile>>
    /\ UNCHANGED exceptAuth

\* a.br.NewPage(ctx) gives a page.
NewPageOpens ==
    /\ auPc = "page"
    /\ auLog' = Append(auLog, AuthStep("newPage", TRUE))
    /\ auPc' = "cookies"
    /\ UNCHANGED <<auEnv, auFile, auRet, auErr>>
    /\ UNCHANGED exceptAuth

\* loadCookies: the file is read, parsed and its cookies set (the result of
\* each NetworkSetCookie dropped): lines 385-398.
LoadCookiesLoads ==
    /\ auPc = "cookies"
    /\ auFile = "cookies"
    /\ auLog' = Append(auLog, AuthStep("loadCookies", TRUE))
    /\ auPc' = "validate"
    /\ UNCHANGED <<auEnv, auFile, auRet, auErr>>
    /\ UNCHANGED exceptAuth

\* loadCookies returns an error: there is no file, or os.ReadFile or
\* json.Unmarshal fails on it; EnsureLoggedIn goes on to the login.
LoadCookiesFails ==
    /\ auPc = "cookies"
    /\ auLog' = Append(auLog, AuthStep("loadCookies", FALSE))
    /\ auPc' = "login"
    /\ UNCHANGED <<auEnv, auFile, auRet, auErr>>
    /\ UNCHANGED exceptAuth

\* validateSession finds the feed link: return nil: lines 170-174.
SessionValid ==
    /\ auPc = "validate"
    /\ auLog' = Append(auLog, AuthStep("validateSession", TRUE))
    /\ auRet' = "nil"
    /\ auPc' = "done"
    /\ UNCHANGED <<auEnv, auFile, auErr>>
    /\ UNCHANGED exceptAuth

\* validateSession returns false (load error or no feed link).
SessionInvalid ==
    /\ auPc = "validate"
    /\ auLog' = Append(auLog, AuthStep("validateSession", FALSE))
    /\ auPc' = "login"
    /\ UNCHANGED <<auEnv, auFile, auRet, auErr>>
    /\ UNCHANGED exceptAuth

\* Whether login has credentials to submit: line 189.
HaveCredentials(env) == env.email /\ env.pass

\* login can succeed only with both credentials: the first return of login.
LoginMaySucceed(env) == HaveCredentials(env)

\* a.login succeeds.
LoginSucceeds ==
    /\ auPc = "login"
    /\ LoginMaySucceed(auEnv)
    /\ auLog' = Append(auLog, AuthStep("login", TRUE))
    /\ auPc' = "save"
    /\ UNCHANGED <<auEnv, auFile, auRet, auErr>>
    /\ UNCHANGED exceptAuth

\* The errors login returns: with a credential missing that one at once,
\* else one of navigation and page load, form (input or button not found or
\* not usable), rejection, checkpoint, no verification.
LoginErrors(env) ==
    IF ~HaveCredentials(env) THEN {"missing credentials"}
    ELSE {"navigation", "form", "rejected", "checkpoint", "unverified"}

\* a.login returns an error: return err: lines 177-179.
LoginFails ==
    /\ auPc = "login"
    /\ auLog' = Append(auLog, AuthStep("login", FALSE))
    /\ auRet' = "err"
    /\ \E e \in LoginErrors(auEnv) : auErr' = e
    /\ auPc' = "done"
    /\ UNCHANGED <<auEnv, auFile>>
    /\ UNCHANGED exceptAuth

\* saveCookies writes the file: return nil.
SaveCookiesSaves ==
    /\ auPc = "save"
    /\ auFile' = "cookies"
    /\ auLog' = Append(auLog, AuthStep("saveCookies", TRUE))
    /\ auRet' = "nil"
    /\ auPc' = "done"
    /\ UNCHANGED <<auEnv, auErr>>
    /\ UNCHANGED exceptAuth

\* What EnsureLoggedIn returns when saveCookies failed, were the error
\* passed on.
SaveFailureResultErr == "err"

\* saveCookies fails: a warning is logged and nil returned: lines 180-183.
SaveFailureResult == "nil"

\* saveCookies returns an error: the cookies could not be read, twice, and
\* the file is as it was, or os.WriteFile failed and left the file cut.
SaveCookiesFails ==
    /\ auPc = "save"
    /\ auLog' = Append(auLog, AuthStep("saveCookies", FALSE))
    /\ auRet' = SaveFailureResult
    /\ \E file \in {auFile, "partial"} : auFile' = file
    /\ auPc' = "done"
    /\ UNCHANGED <<auEnv, auErr>>
    /\ UNCHANGED exceptAuth

\* The caller goes on; the cookie file stays.
EnsureLoggedInReturn ==
    /\ auPc = "done"
    /\ auPc' = "idle"
    /\ auEnv' = [email |-> FALSE, pass |-> FALSE]
    /\ auLog' = <<>>
    /\ auRet' = "none" /\ auErr' = "none"
    /\ UNCHANGED auFile
    /\ UNCHANGED exceptAuth

AuthNext ==
    \/ EnsureLoggedInBegin
    \/ NewPageFails
    \/ NewPageOpens
    \/ LoadCookiesLoads
    \/ LoadCookiesFails
    \/ SessionValid
    \/ SessionInvalid
    \/ LoginSucceeds
    \/ LoginFails
    \/ SaveCookiesSaves
    \/ SaveCookiesFails
    \/ EnsureLoggedInReturn

\* The steps of this call, and what is known of one of them.
Took(step) == \E k \in 1 .. Len(auLog) : auLog[k].step = step
Did(step, ok) == \E k \in 1 .. Len(auLog) : auLog[k] = AuthStep(step, ok)

\* The stored session was reused: the cookies loaded and the session validated.
SessionReused == Did("loadCookies", TRUE) /\ Did("validateSession", TRUE)

\* The session logic of C18, for a call that has returned.
SessionLogic ==
    /\ SessionReused => ~Took("login") /\ auRet = "nil"
    /\ Took("saveCookies") =>
          /\ Did("login", TRUE)
          /\ auLog[Len(auLog)].step = "saveCookies"
          /\ auLog[Len(auLog) - 1] = AuthStep("login", TRUE)
    /\ Did("login", FALSE) =>
          auRet = "err" /\ auErr \in LoginErrors(auEnv) /\ ~Took("saveCookies")
    /\ Did("login", TRUE) => Took("saveCookies")
    /\ Did("saveCookies", FALSE) => auRet = "nil" /\ auErr = "none"

----------------------------------------------------------------------------
(* Search: Service.SearchAndStoreTargets, normalizeProfileURL *)

\* How many result pages the site serves at most, and how many links a page
\* has at most.
MaxPages == 2
MaxLinks == 2

\* The href of a link: absolute or not, the profile its path /in/... names
\* (0: the path is not a profile's), with a query string or not; NoHref is a
\* link whose Attribute("href") is nil or fails.
NoHref == [abs |-> FALSE, target |-> -1, query |-> FALSE]

Hrefs ==
    {NoHref,
     [abs |-> FALSE, target |-> 0, query |-> FALSE],
     [abs |-> FALSE, target |-> 1, query |-> FALSE],
     [abs |-> TRUE, target |-> 1, query |-> TRUE],
     [abs |-> FALSE, target |-> 2, query |-> TRUE]}

\* The links a result page can show.
PagesOfLinks == SeqsUpTo(Hrefs, MaxLinks) \ {<<>>}

\* normalizeProfileURL(u): the query string cut off, the host put in front
\* of a relative URL.
normalizeProfileURL(u) == [abs |-> TRUE, target |-> u.target, query |-> FALSE]

\* strings.Contains(profileURL, "/in/").
IsProfileURL(u) == u.target > 0

\* The Limit arguments of the runs (--limit; 0 when not given).
SearchLimits == {-1, 0, 1, 3}

\* if c.Limit <= 0 { c.Limit = s.cfg.Limits.MaxProfilesPerSearch }.
EffectiveLimit(limit) == IF limit <= 0 THEN Limits.MaxProfilesPerSearch ELSE limit

\* The limit test read as collected > c.Limit.
LimitReachedOver(collected, limit) == collected > limit

\* collected >= c.Limit: the loop condition and the test in the range loop.
LimitReached(collected, limit) == collected >= limit

\* What SearchAndStoreTargets returns.
SearchResult(n, err) == [n |-> n, err |-> err]

SearchIdle ==
    /\ srPc = "idle"
    /\ srLimit = 0 /\ srPage = 0 /\ srLinks = <<>> /\ srK = 0 /\ srSeen = {}
    /\ srCollected = 0 /\ srStoredAt = {}
    /\ srRet = "none"

\* What a step of the search leaves alone besides the profiles table.
exceptSearchStore == <<stLogs, stDay, stCall, connVars, followVars, timingVars, scrollVars, typeVars, moveVars, clickVars, runAllVars, configVars, authVars, hoverVars, idleMoveVars, sendVars>>

\* SearchAndStoreTargets(ctx, c) is called: lines 39-42.
SearchBegin ==
    /\ srPc = "idle"
    /\ \E limit \in SearchLimits : srLimit' = EffectiveLimit(limit)
    /\ srPc' = "page"
    /\ UNCHANGED <<srPage, srLinks, srK, srSeen, srCollected, srStoredAt, srRet>>
    /\ UNCHANGED exceptSearch

\* s.br.NewPage(ctx) fails: return 0, err: lines 43-46.
SearchNewPageFails ==
    /\ srPc = "page"
    /\ srRet' = SearchResult(0, TRUE)
    /\ srPc' = "done"
    /\ UNCHANGED <<srLimit, srPage, srLinks, srK, srSeen, srCollected, srStoredAt>>
    /\ UNCHANGED exceptSearch

\* The page opens; collected := 0, pageNum := 1: lines 72-73.
SearchNewPageOpens ==
    /\ srPc = "page"
    /\ srCollected' = 0 /\ srPage' = 1
    /\ srPc' = "loop"
    /\ UNCHANGED <<srLimit, srLinks, srK, srSeen, srStoredAt, srRet>>
    /\ UNCHANGED exceptSearch

\* The loop condition collected < c.Limit fails: line 77.
SearchLoopExit ==
    /\ srPc = "loop"
    /\ LimitReached(srCollected, srLimit)
    /\ srPc' = "end"
    /\ UNCHANGED <<srLimit, srPage, srLinks, srK, srSeen, srCollected, srStoredAt, srRet>>
    /\ UNCHANGED exceptSearch

\* A result page that ends the search: navigation, load, container or
\* selectors fail, or no link is found: break: lines 81-173.
SearchPageBreaks ==
    /\ srPc = "loop"
    /\ ~LimitReached(srCollected, srLimit)
    /\ srPc' = "end"
    /\ UNCHANGED <<srLimit, srPage, srLinks, srK, srSeen, srCollected, srStoredAt, srRet>>
    /\ UNCHANGED exceptSearch

\* A result page with links: seenOnPage := {} and the range loop starts:
\* lines 81-176.
SearchPageLoads ==
    /\ srPc = "loop"
    /\ ~LimitReached(srCollected, srLimit)
    /\ srPage <= MaxPages
    /\ \E links \in PagesOfLinks : srLinks' = links
    /\ srK' = 0 /\ srSeen' = {}
    /\ srPc' = "links"
    /\ UNCHANGED <<srLimit, srPage, srCollected, srStoredAt, srRet>>
    /\ UNCHANGED exceptSearch

\* In the range loop: collected >= c.Limit: break: lines 177-180.
SearchLimitReached ==
    /\ srPc = "links" /\ srK < Len(srLinks)
    /\ LimitReached(srCollected, srLimit)
    /\ srPc' = "pageEnd"
    /\ UNCHANGED <<srLimit, srPage, srLinks, srK, srSeen, srCollected, srStoredAt, srRet>>
    /\ UNCHANGED exceptSearch

\* The link is passed over: no href, not a profile link, or a profile seen
\* on this page already: continue: lines 181-199.
SearchLinkSkipped ==
    /\ srPc = "links" /\ srK < Len(srLinks)
    /\ ~LimitReached(srCollected, srLimit)
    /\ LET href == srLinks[srK + 1]
           profileURL == normalizeProfileURL(href)
       IN  \/ href = NoHref
           \/ ~IsProfileURL(profileURL)
           \/ profileURL \in srSeen
    /\ srK' = srK + 1
    /\ UNCHANGED <<srPc, srLimit, srPage, srLinks, srSeen, srCollected, srStoredAt, srRet>>
    /\ UNCHANGED exceptSearch

\* The link is a profile's, new on this page: it is stored, the URL alone,
\* and counted: lines 200-213.
SearchLinkStored ==
    /\ srPc = "links" /\ srK < Len(srLinks)
    /\ ~LimitReached(srCollected, srLimit)
    /\ LET href == srLinks[srK + 1]
           profileURL == normalizeProfileURL(href)
       IN  /\ href # NoHref
           /\ IsProfileURL(profileURL)
           /\ profileURL \notin srSeen
           /\ srSeen' = srSeen \cup {profileURL}
           /\ stProfiles' = UpsertProfile(stProfiles, profileURL.target, 0)
    /\ srStoredAt' = srStoredAt \cup {srCollected}
    /\ srCollected' = srCollected + 1
    /\ srK' = srK + 1
    /\ UNCHANGED <<srPc, srLimit, srPage, srLinks, srRet>>
    /\ UNCHANGED exceptSearchStore

\* The link is a profile's, new on this page, and UpsertProfile fails:
\* nothing is stored or counted: continue: lines 206-210.
SearchLinkStoreFails ==
    /\ srPc = "links" /\ srK < Len(srLinks)
    /\ ~LimitReached(srCollected, srLimit)
    /\ LET href == srLinks[srK + 1]
           profileURL == normalizeProfileURL(href)
       IN  /\ href # NoHref
           /\ IsProfileURL(profileURL)
           /\ profileURL \notin srSeen
           /\ srSeen' = srSeen \cup {profileURL}
    /\ srK' = srK + 1
    /\ UNCHANGED <<srPc, srLimit, srPage, srLinks, srCollected, srStoredAt, srRet>>
    /\ UNCHANGED exceptSearch

\* The range loop has passed every link.
SearchLinksDone ==
    /\ srPc = "links" /\ srK = Len(srLinks)
    /\ srPc' = "pageEnd"
    /\ UNCHANGED <<srLimit, srPage, srLinks, srK, srSeen, srCollected, srStoredAt, srRet>>
    /\ UNCHANGED exceptSearch

\* After the links: no profile link on the page ends the search, else the
\* pause between pages and pageNum++: lines 216-225.
SearchPageEnd ==
    /\ srPc = "pageEnd"
    /\ IF srSeen = {}
       THEN srPc' = "end" /\ UNCHANGED srPage
       ELSE srPc' = "loop" /\ srPage' = srPage + 1
    /\ srLinks' = <<>> /\ srK' = 0 /\ srSeen' = {}
    /\ UNCHANGED <<srLimit, srCollected, srStoredAt, srRet>>
    /\ UNCHANGED exceptSearch

\* return collected, nil: lines 228-229.
SearchFinish ==
    /\ srPc = "end"
    /\ srRet' = SearchResult(srCollected, FALSE)
    /\ srPc' = "done"
    /\ UNCHANGED <<srLimit, srPage, srLinks, srK, srSeen, srCollected, srStoredAt>>
    /\ UNCHANGED exceptSearch

\* The caller goes on; the profiles stay stored.
SearchReturn ==
    /\ srPc = "done"
    /\ srPc' = "idle"
    /\ srLimit' = 0 /\ srPage' = 0 /\ srLinks' = <<>> /\ srK' = 0 /\ srSeen' = {}
    /\ srCollected' = 0 /\ srStoredAt' = {}
    /\ srRet' = "none"
    /\ UNCHANGED exceptSearch

SearchNext ==
    \/ SearchBegin
    \/ SearchNewPageFails
    \/ SearchNewPageOpens
    \/ SearchLoopExit
    \/ SearchPageBreaks
    \/ SearchPageLoads
    \/ SearchLimitReached
    \/ SearchLinkSkipped
    \/ SearchLinkStored
    \/ SearchLinkStoreFails
    \/ SearchLinksDone
    \/ SearchPageEnd
    \/ SearchFinish
    \/ SearchReturn

\* C19: SearchAndStoreTargets collects at most Limit profiles in a run (Limit
\* <= 0 is replaced by max_profiles_per_search): the value it returns never
\* exceeds Limit, and no profile is stored after the count has reached Limit.
C19_SearchLimit ==
    srPc # "idle" =>
        /\ srLimit > 0
        /\ srCollected <= srLimit
        /\ \A c \in srStoredAt : c < srLimit
        /\ Cardinality(srStoredAt) = srCollected
        /\ srPc = "done" =>
              /\ srRet.n <= srLimit
              /\ ~srRet.err => srRet.n = srCollected

\* C19 witness: a run with max_profiles_per_search = 2 as its limit stored
\* its second profile on its second page and left the range loop with a link
\* still to come.
C19_Witness ==
    /\ srPc = "pageEnd" /\ srPage = 2
    /\ srLimit = Limits.MaxProfilesPerSearch
    /\ srCollected = srLimit
    /\ srStoredAt = {0, 1}
    /\ srK < Len(srLinks)

----------------------------------------------------------------------------
(* Hover wandering: RandomHover *)

\* len(selectors) of the calls: none, one candidate, two.
HoverSelectorCounts == {0, 1, 2}

\* The element the candidates resolve to, when they do, and the viewport.
HoverQuad == <<100, 200, 180, 200, 180, 230, 100, 230>>
HoverView == [err |-> FALSE, w |-> 300, h |-> 440]

\* (int(centerX), int(centerY)): the mean of the four corners of the quad.
HoverCentre(quad) ==
    <<GoDiv(quad[1] + quad[3] + quad[5] + quad[7], 4),
      GoDiv(quad[2] + quad[4] + quad[6] + quad[8], 4)>>

\* The loop condition with the bound on the candidates left out.
HoverMoreOfAttempts(i, attempts, n) == i < attempts

\* i < attempts && i < len(selectors).
HoverMore(i, attempts, n) == i < attempts /\ i < n

\* What becomes of an attempt: the element is not found within 2 s, its
\* shape cannot be read or has no quads, or the pointer is taken to it;
\* moved: whether pointer moves were dispatched for it.
HoverAttempt(outcome, moved) == [outcome |-> outcome, moved |-> moved]
HoverFailures == {"no element", "shape error", "no quads"}

HoverIdle ==
    /\ hvPc = "idle"
    /\ hvN = 0 /\ hvAttempts = 0 /\ hvI = 0 /\ hvLog = <<>>
    /\ hvRet = "none"

\* RandomHover(p, selectors) with no selector: return: lines 412-414.
HoverNoSelectors ==
    /\ hvPc = "idle"
    /\ hvN' = 0
    /\ hvRet' = "returned"
    /\ hvPc' = "done"
    /\ UNCHANGED <<hvAttempts, hvI, hvLog>>
    /\ UNCHANGED moveVars
    /\ UNCHANGED exceptHover

\* RandomHover(p, selectors) with selectors: attempts := 1 + rand.Intn(2):
\* lines 417-418.
HoverBegin ==
    /\ hvPc = "idle"
    /\ \E n \in HoverSelectorCounts \ {0} : hvN' = n
    /\ \E d \in Intn(2) : hvAttempts' = 1 + d
    /\ hvI' = 0
    /\ hvPc' = "attempt"
    /\ UNCHANGED <<hvLog, hvRet>>
    /\ UNCHANGED moveVars
    /\ UNCHANGED exceptHover

\* An attempt whose element or shape cannot be resolved: nothing more is
\* done for it and the loop goes on: lines 419-422.
HoverSkip ==
    /\ hvPc = "attempt" /\ HoverMore(hvI, hvAttempts, hvN)
    /\ \E why \in HoverFailures : hvLog' = Append(hvLog, HoverAttempt(why, mvCount > 0))
    /\ hvI' = hvI + 1
    /\ UNCHANGED <<hvPc, hvN, hvAttempts, hvRet>>
    /\ UNCHANGED moveVars
    /\ UNCHANGED exceptHover

\* An attempt whose element and shape resolve: the centre, the viewport
\* read and MoveMouseHumanLike entered: lines 423-440.
HoverAim ==
    /\ hvPc = "attempt" /\ HoverMore(hvI, hvAttempts, hvN)
    /\ MoveEnter(ClickFrom(HoverView), HoverCentre(HoverQuad))
    /\ hvPc' = "move"
    /\ UNCHANGED <<hvN, hvAttempts, hvI, hvLog, hvRet>>
    /\ UNCHANGED exceptHover

\* MoveMouseHumanLike has returned (its result discarded): SleepRandom(300,
\* 800) and i++: lines 440-441.
HoverPause ==
    /\ hvPc = "move" /\ mvPc = "done"
    /\ hvLog' = Append(hvLog, HoverAttempt("hover", mvCount > 0))
    /\ hvI' = hvI + 1
    /\ hvPc' = "attempt"
    /\ MoveReset
    /\ UNCHANGED <<hvN, hvAttempts, hvRet>>
    /\ UNCHANGED exceptHover

\* The loop is over: RandomHover returns.
HoverFinish ==
    /\ hvPc = "attempt" /\ ~HoverMore(hvI, hvAttempts, hvN)
    /\ hvRet' = "returned"
    /\ hvPc' = "done"
    /\ UNCHANGED <<hvN, hvAttempts, hvI, hvLog>>
    /\ UNCHANGED moveVars
    /\ UNCHANGED exceptHover

\* The caller goes on.
HoverReturn ==
    /\ hvPc = "done"
    /\ hvPc' = "idle"
    /\ hvN' = 0 /\ hvAttempts' = 0 /\ hvI' = 0 /\ hvLog' = <<>>
    /\ hvRet' = "none"
    /\ UNCHANGED moveVars
    /\ UNCHANGED exceptHover

HoverNext ==
    \/ HoverNoSelectors
    \/ HoverBegin
    \/ HoverSkip
    \/ HoverAim
    \/ MoveStep
    \/ MoveMicro
    \/ MoveNoMicro
    \/ HoverPause
    \/ HoverFinish
    \/ HoverReturn

\* C22: RandomHover is best-effort: with an empty candidate set it issues no
\* surface command; otherwise it makes 1 or 2 hover attempts and never more
\* than the number of candidates, a candidate whose element or geometry
\* cannot be resolved is skipped without any pointer move and without
\* aborting the remaining attempts, and no failure is ever reported to the
\* caller.
C22_HoverBestEffort ==
    /\ hvN = 0 => hvLog = <<>> /\ mvCount = 0 /\ mvPc = "idle"
    /\ Len(hvLog) <= Min(hvAttempts, hvN)
    /\ Len(hvLog) <= 2
    /\ \A k \in 1 .. Len(hvLog) :
          /\ hvLog[k].outcome \in HoverFailures => ~hvLog[k].moved
          /\ hvLog[k].outcome = "hover" => hvLog[k].moved
    /\ hvPc \in {"attempt", "done"} => mvPc = "idle" /\ mvCount = 0
    /\ hvPc = "done" /\ hvN > 0 =>
          /\ Len(hvLog) = Min(hvAttempts, hvN)
          /\ Len(hvLog) \in {1, 2}
    /\ hvPc = "done" => hvRet = "returned"

\* C22 witness: with two candidates and two attempts the first attempt
\* found no element and the second took the pointer to its element.
C22_Witness ==
    /\ hvPc = "done" /\ hvN = 2 /\ hvAttempts = 2
    /\ Len(hvLog) = 2
    /\ hvLog[1] = HoverAttempt("no element", FALSE)
    /\ hvLog[2] = HoverAttempt("hover", TRUE)

----------------------------------------------------------------------------
(* Idle pointer movement: MouseIdleMovement *)

\* The viewports the surface reports: widths and heights just above, at and
\* below twice the margin; width 0.
IdleViews ==
    {[err |-> FALSE, w |-> 202, h |-> 201],
     [err |-> FALSE, w |-> 201, h |-> 201],
     [err |-> FALSE, w |-> 200, h |-> 600],
     [err |-> FALSE, w |-> 600, h |-> 150],
     [err |-> FALSE, w |-> 0, h |-> 201]}

\* (width, height): 1400 and 900, or what the page reports as positive.
IdleDims(view) ==
    IF view.err THEN <<1400, 900>>
    ELSE <<IF view.w > 0 THEN view.w ELSE 1400,
           IF view.h > 0 THEN view.h ELSE 900>>

\* margin := 100.
IdleMargin == 100

\* rand.Intn(width - 2*margin): no value (a panic) unless the size is above
\* twice the margin.
SafeDraws(size) == Intn(size - 2 * IdleMargin)

\* rand.Intn(40) - 20.
Wander == {d - 20 : d \in Intn(40)}

\* The bounds 3 + rand.Intn(4) of the wandering loop, drawn anew at each test.
WanderBounds == {3 + d : d \in Intn(4)}

IdleMoveIdle ==
    /\ imPc = "idle"
    /\ imView = <<>> /\ imDest = <<>> /\ imI = 0 /\ imLast = <<>>
    /\ imRet = "none"

\* MouseIdleMovement(p) up to the viewport read: lines 191-206.
IdleMoveBegin ==
    /\ imPc = "idle"
    /\ \E view \in IdleViews : imView' = view
    /\ imPc' = "dims"
    /\ UNCHANGED <<imDest, imI, imLast, imRet>>
    /\ UNCHANGED moveVars
    /\ UNCHANGED exceptIdleMove

\* rand.Intn is called with an argument that is not positive: the call
\* panics and MouseIdleMovement does not return: lines 209-211.
IdleMovePanics ==
    /\ imPc = "dims"
    /\ \/ SafeDraws(IdleDims(imView)[1]) = {}
       \/ SafeDraws(IdleDims(imView)[2]) = {}
    /\ imRet' = "panic"
    /\ imPc' = "done"
    /\ UNCHANGED <<imView, imDest, imI, imLast>>
    /\ UNCHANGED moveVars
    /\ UNCHANGED exceptIdleMove

\* The point in the safe area is drawn and MoveMouseHumanLike entered from
\* the centre of the viewport: lines 209-218.
IdleMoveAim ==
    /\ imPc = "dims"
    /\ LET dims == IdleDims(imView)
       IN  \E dx \in SafeDraws(dims[1]), dy \in SafeDraws(dims[2]) :
             /\ imDest' = <<IdleMargin + dx, IdleMargin + dy>>
             /\ MoveEnter(<<GoDiv(dims[1], 2), GoDiv(dims[2], 2)>>,
                          <<IdleMargin + dx, IdleMargin + dy>>)
    /\ imPc' = "move"
    /\ UNCHANGED <<imView, imI, imLast, imRet>>
    /\ UNCHANGED exceptIdleMove

\* MoveMouseHumanLike has returned: SleepRandom(200, 500) and i := 0:
\* lines 218-222.
IdleMoveSettle ==
    /\ imPc = "move" /\ mvPc = "done"
    /\ imI' = 0
    /\ imPc' = "jiggle"
    /\ MoveReset
    /\ UNCHANGED <<imView, imDest, imLast, imRet>>
    /\ UNCHANGED exceptIdleMove

\* One wandering move: the loop test passes, the move to (x + dx, y + dy)
\* is dispatched, its error discarded, and SleepRandom(100, 400): lines
\* 222-231.
IdleMoveWander ==
    /\ imPc = "jiggle"
    /\ \E bound \in WanderBounds : imI < bound
    /\ \E dx \in Wander, dy \in Wander : imLast' = <<imDest[1] + dx, imDest[2] + dy>>
    /\ imI' = imI + 1
    /\ UNCHANGED <<imPc, imView, imDest, imRet>>
    /\ UNCHANGED moveVars
    /\ UNCHANGED exceptIdleMove

\* The loop test fails: return nil: line 233.
IdleMoveFinish ==
    /\ imPc = "jiggle"
    /\ \E bound \in WanderBounds : ~(imI < bound)
    /\ imRet' = "nil"
    /\ imPc' = "done"
    /\ UNCHANGED <<imView, imDest, imI, imLast>>
    /\ UNCHANGED moveVars
    /\ UNCHANGED exceptIdleMove

\* The caller goes on (or the process has ended in the panic).
IdleMoveReturn ==
    /\ imPc = "done"
    /\ imPc' = "idle"
    /\ imView' = <<>> /\ imDest' = <<>> /\ imI' = 0 /\ imLast' = <<>>
    /\ imRet' = "none"
    /\ UNCHANGED moveVars
    /\ UNCHANGED exceptIdleMove

IdleMoveNext ==
    \/ IdleMoveBegin
    \/ IdleMovePanics
    \/ IdleMoveAim
    \/ MoveStep
    \/ MoveMicro
    \/ MoveNoMicro
    \/ IdleMoveSettle
    \/ IdleMoveWander
    \/ IdleMoveFinish
    \/ IdleMoveReturn

\* C23 as stated: for every viewport size the surface reports (any positive
\* width and height), MouseIdleMovement completes without failing and its
\* destination point lies inside the margin-bounded safe region, at least 100
\* px from every viewport edge; it then dispatches between 3 and 6 jiggle
\* moves, each within 20 px per axis of that destination.
C23_IdleMovementSafe ==
    /\ imPc = "done" =>
          /\ imRet = "nil"
          /\ 3 <= imI /\ imI <= 6
    /\ imDest # <<>> =>
          LET dims == IdleDims(imView)
          IN  /\ IdleMargin <= imDest[1] /\ imDest[1] <= dims[1] - IdleMargin
              /\ IdleMargin <= imDest[2] /\ imDest[2] <= dims[2] - IdleMargin
    /\ imI <= 6
    /\ imLast # <<>> => Within(imLast, imDest, 20)

----------------------------------------------------------------------------
(* Specifications, one for each primitive *)

\* No primitive has been called yet.
Init ==
    /\ TimingIdle /\ ScrollIdle /\ TypeIdle /\ MoveIdle /\ ClickIdle
    /\ StoreEmpty /\ ConnIdle /\ FollowIdle
    /\ RunAllIdle
    /\ ConfigDefault
    /\ AuthIdle
    /\ SearchIdle
    /\ HoverIdle
    /\ IdleMoveIdle
    /\ SendOneIdle

SpecTiming == Init /\ [][TimingNext]_vars

SpecScroll == Init /\ [][ScrollNext]_vars

SpecType == Init /\ [][TypeNext]_vars

SpecTypeFaulty == Init /\ [][TypeFaultyNext]_vars

SpecMove == Init /\ [][MoveNext]_vars

SpecClick == Init /\ [][ClickNext]_vars

SpecConnect == Init /\ [][ConnectNext]_vars

SpecFollowUp == Init /\ [][FollowUpNext]_vars

SpecStore == Init /\ [][StoreNext]_vars

SpecSendOne == Init /\ [][SendOneNext]_vars

SpecRunAll == Init /\ [][RunAllNext]_vars

SpecTypeConfigured == Init /\ [][TypeConfiguredNext]_vars

SpecAuth == Init /\ [][AuthNext]_vars

SpecSearch == Init /\ [][SearchNext]_vars

SpecHover == Init /\ [][HoverNext]_vars

SpecIdleMove == Init /\ [][IdleMoveNext]_vars

====
